---- MODULE Spec2Model ----
(***************************************************************************)
(* Verification model of ase/geometry/bravais_type_engine.py:              *)
(*   - the classifier identify_lattice / check_type over niggli_op_table,  *)
(*   - the recursive greedy_lattice_reduce.                                *)
(* Matrices are 9-tuples read row-major, as the table stores them.         *)
(***************************************************************************)
EXTENDS Integers, Sequences, FiniteSets, TLC

VARIABLES
    pc,        \* position of identify_lattice: idle / loop / returned / raised / an exception name
    acc,       \* recognizer input: the candidates get_lattice_from_canonical_cell accepts
    shift,     \* recognizer input: selects which lattice / failure each candidate gives
    op,        \* the transform returned by cell.niggli_reduce()
    testIdx,   \* position of "for testlat in bravais_names" (1-based)
    results,   \* results of the last check_type call
    ret,       \* value returned by identify_lattice
    scanned,   \* class names whose table entry check_type has read, in order
    table,     \* the module global niggli_op_table as the process holds it
    gpc,          \* greedy_lattice_reduce: idle / running / done
    caller_cell,  \* the array the caller passed to greedy_lattice_reduce
    ginput,       \* the rows of that array at the time of the call
    stack,        \* frames of greedy_lattice_reduce, outermost first
    gret,         \* the pair returned to the caller
    gpasses,      \* passes of the outermost while loop, counted as they start
    npc,          \* find_niggli_ops on one sample: idle / keyed / AssertionError
    nsample,      \* the cell of the sample, lat.tocell()
    narg,         \* the cell niggli_reduce was called on
    nret,         \* what niggli_reduce returned: rcell and op
    tpc,             \* generate_niggli_op_table: idle / lattices / samples / returned / an exception name
    targs,           \* its arguments: lattices, length_grid, angle_grid
    tenv,            \* what the external constructors and reducer do during the call
    latIdx,          \* position of "for latname in lattices" (1-based)
    samples,         \* the lattices lattice_loop yields for the current class
    sampleIdx,       \* position of "for lat in lattice_loop(...)" (1-based)
    niggli_counts,   \* the dict niggli_ops of find_niggli_ops, in insertion order
    all_niggli_ops,  \* the dict all_niggli_ops of find_all_niggli_ops
    observed,        \* the keys computed for the samples of the current class, in order
    tret,            \* the table returned by generate_niggli_op_table
    vpc,          \* the VibrationsData instance: none / ready / the exception of the constructor
    self_atoms,   \* self._atoms: the masses of the atoms
    self_indices, \* self._indices
    self_hessian2d, \* self._hessian2d: the diagonal of the Hessian
    self_energies,  \* self._energies, None or an array
    self_modes,     \* self._modes, None or an array
    ncalc,        \* completed runs of _calculate_energies_and_modes
    first,        \* what the first completed run returned
    vret,         \* the last call on the instance: method, exception, value returned
    held,         \* the arrays the caller holds from the last call that returned arrays
    spc,          \* connected_indices: idle / while / for / done
    natoms,       \* len(atoms)
    bonds,        \* the neighbour pairs the neighbour list finds
    index_arg,    \* the argument index
    index,        \* the local index
    connected,    \* the list connected
    isolated,     \* the flag isolated
    cpos,         \* position of "for i in connected" (1-based)
    bpc,          \* split_bond: idle / first / second / done / AssertionError
    split_atoms,  \* the argument atoms: the number of atoms and their neighbour pairs
    index1,       \* the argument index1
    index2,       \* the argument index2
    atoms1,       \* the local atoms1
    atoms2,       \* the local atoms2
    given,        \* the constructor's arguments as the caller holds them
    built,        \* the values of the arguments when the instance was made
    handed        \* the object the last getter handed out, as the caller holds it

\* the variables of the classifier and those of the lattice reducer
cvars == <<pc, acc, shift, op, testIdx, results, ret, scanned, table>>

gvars == <<gpc, caller_cell, ginput, stack, gret, gpasses>>

\* the variables of the body of find_niggli_ops for one sample
nvars == <<npc, nsample, narg, nret>>

\* the variables of the table generator
tvars == <<tpc, targs, tenv, latIdx, samples, sampleIdx, niggli_counts,
           all_niggli_ops, observed, tret>>

\* the variables of the VibrationsData instance and its caller
vvars == <<vpc, self_atoms, self_indices, self_hessian2d, self_energies,
           self_modes, ncalc, first, vret, held>>

\* the variables of connected_indices
svars == <<spc, natoms, bonds, index_arg, index, connected, isolated, cpos>>

\* the variables of split_bond
bvars == <<bpc, split_atoms, index1, index2, atoms1, atoms2>>

\* the objects of the caller of a VibrationsData instance
fvars == <<given, built, handed>>

vars == <<pc, acc, shift, op, testIdx, results, ret, scanned, table,
          gpc, caller_cell, ginput, stack, gret, gpasses,
          npc, nsample, narg, nret,
          tpc, targs, tenv, latIdx, samples, sampleIdx, niggli_counts,
          all_niggli_ops, observed, tret,
          vpc, self_atoms, self_indices, self_hessian2d, self_energies,
          self_modes, ncalc, first, vret, held,
          spc, natoms, bonds, index_arg, index, connected, isolated, cpos,
          bpc, split_atoms, index1, index2, atoms1, atoms2,
          given, built, handed>>

-----------------------------------------------------------------------------
(* Bounds of the model *)

\* at most this many table transforms are accepted by the recognizer per query
MaxAccept == 2

\* the recognizer's answer pattern is shifted by 0..MaxShift
MaxShift == 3

\* rows of the input cells of the reducer have squared length at most MaxNorm2
MaxNorm2 == 3

\* the pass counter kept for a call of the reducer saturates here
MaxPasses == 6

\* the constructors' rejection rule is one of 0..MaxReject (0: none rejected)
MaxReject == 3

\* a faulty answer of the Niggli reducer comes at sample 1..MaxFaultAt of a class
MaxFaultAt == 2

-----------------------------------------------------------------------------
(* ase.geometry.bravais: names and dimensions of the lattices *)

bravais_names ==
    << "CUB", "FCC", "BCC", "TET", "BCT", "ORC", "ORCC", "ORCF", "ORCI",
       "HEX", "RHL", "MCL", "MCLC", "TRI" >>

\* bravais_lattices[name].ndim
lattice_ndim(name) == 3

-----------------------------------------------------------------------------
(* niggli_op_table, one definition per key *)

niggli_ops_BCC ==
    <<
       <<1, 0, 0, 0, 1, 0, 0, 0, 1>>
    >>

niggli_ops_BCT ==
    <<
       <<1, 0, 0, 0, 1, 0, 0, 0, 1>>,
       <<0, 1, 0, 0, 0, 1, 1, 0, 0>>,
       <<0, 1, 0, 1, 0, 0, 1, 1, -1>>,
       <<-1, 0, 1, 0, 1, 0, -1, 1, 0>>,
       <<1, 1, 0, 1, 0, 0, 0, 0, -1>>
    >>

niggli_ops_CUB ==
    <<
       <<1, 0, 0, 0, 1, 0, 0, 0, 1>>
    >>

niggli_ops_FCC ==
    <<
       <<1, 0, 0, 0, 1, 0, 0, 0, 1>>
    >>

niggli_ops_HEX ==
    <<
       <<1, 0, 0, 0, 1, 0, 0, 0, 1>>,
       <<0, 1, 0, 0, 0, 1, 1, 0, 0>>
    >>

\* variant: a second transform recorded for ORC, equal to the first
niggli_ops_ORC_twice ==
    <<
       <<1, 0, 0, 0, 1, 0, 0, 0, 1>>,
       <<1, 0, 0, 0, 1, 0, 0, 0, 1>>
    >>

niggli_ops_ORC ==
    <<
       <<1, 0, 0, 0, 1, 0, 0, 0, 1>>
    >>

niggli_ops_ORCC ==
    <<
       <<1, 0, 0, 0, 1, 0, 0, 0, 1>>,
       <<1, 0, -1, 1, 0, 0, 0, -1, 0>>,
       <<-1, 1, 0, -1, 0, 0, 0, 0, 1>>,
       <<0, 1, 0, 0, 0, 1, 1, 0, 0>>,
       <<0, -1, 1, 0, -1, 0, 1, 0, 0>>
    >>

\* variant: one entry of the first ORCF transform mistyped
niggli_ops_ORCF_mistyped ==
    <<
       <<0, -2, 0, 0, 1, -1, 1, 0, 0>>,
       <<-1, 0, 0, 1, 0, 1, 1, 1, 0>>
    >>

niggli_ops_ORCF ==
    <<
       <<0, -1, 0, 0, 1, -1, 1, 0, 0>>,
       <<-1, 0, 0, 1, 0, 1, 1, 1, 0>>
    >>

niggli_ops_ORCI ==
    <<
       <<0, 0, -1, 0, -1, 0, -1, 0, 0>>,
       <<0, 0, 1, -1, 0, 0, -1, -1, 0>>,
       <<0, 1, 0, 1, 0, 0, 1, 1, -1>>,
       <<0, -1, 0, 1, 0, -1, 1, -1, 0>>
    >>

niggli_ops_RHL ==
    <<
       <<0, -1, 0, 1, 1, 1, -1, 0, 0>>,
       <<1, 0, 0, 0, 1, 0, 0, 0, 1>>,
       <<1, -1, 0, 1, 0, -1, 1, 0, 0>>
    >>

niggli_ops_TET ==
    <<
       <<1, 0, 0, 0, 1, 0, 0, 0, 1>>,
       <<0, 1, 0, 0, 0, 1, 1, 0, 0>>
    >>

niggli_ops_MCL ==
    <<
       <<0, -1, 0, -1, 0, 0, 0, 0, -1>>,
       <<-1, 0, 0, 0, 1, 0, 0, 0, -1>>,
       <<-1, 0, 0, 0, 0, 1, 0, 1, 0>>,
       <<0, 0, -1, 1, 0, 0, 0, -1, 0>>,
       <<1, 0, 0, 0, -1, 0, 0, 0, -1>>,
       <<0, 1, 0, -1, 0, 0, 0, 0, 1>>,
       <<-1, 0, 0, 0, 0, -1, 0, -1, 0>>,
       <<1, 0, 0, 0, 1, 0, 0, 0, 1>>
    >>

niggli_ops_MCLC ==
    <<
       <<0, -1, 0, -1, 0, 0, 0, 0, -1>>,
       <<-1, 0, 0, 0, 1, 0, 0, 0, -1>>,
       <<1, 0, 0, 0, -1, 0, 0, 0, -1>>,
       <<-1, 0, 0, 0, -1, 0, 0, 0, 1>>,
       <<0, 1, 0, -1, 0, 0, 0, 0, 1>>,
       <<1, 0, 0, 0, 1, 0, 0, 0, 1>>,
       <<0, -1, 0, -1, 0, -1, 0, 0, -1>>,
       <<-1, 0, -1, 0, 1, 0, 0, 0, -1>>,
       <<0, 1, 0, 1, 0, 0, 0, 0, -1>>,
       <<-1, 0, -1, 0, -1, 0, 0, 0, 1>>,
       <<0, -1, 0, 1, 0, 0, 0, 0, 1>>,
       <<1, 0, 1, 0, -1, 0, 0, 0, -1>>,
       <<0, 0, 1, -1, 0, 0, 0, -1, 0>>,
       <<-1, 0, 0, 0, 1, 1, 0, 0, -1>>,
       <<1, 0, 1, 0, 1, 0, 0, 0, 1>>
    >>

niggli_op_table ==
    [ BCC |-> niggli_ops_BCC,
      BCT |-> niggli_ops_BCT,
      CUB |-> niggli_ops_CUB,
      FCC |-> niggli_ops_FCC,
      HEX |-> niggli_ops_HEX,
      ORC |-> niggli_ops_ORC,
      ORCC |-> niggli_ops_ORCC,
      ORCF |-> niggli_ops_ORCF,
      ORCI |-> niggli_ops_ORCI,
      RHL |-> niggli_ops_RHL,
      TET |-> niggli_ops_TET,
      MCL |-> niggli_ops_MCL,
      MCLC |-> niggli_ops_MCLC ]

-----------------------------------------------------------------------------
(* 3x3 integer matrices as 9-tuples *)

Range(s) == { s[k] : k \in 1..Len(s) }

eye3 == <<1, 0, 0, 0, 1, 0, 0, 0, 1>>

\* a @ b
MatMul(a, b) ==
    [ n \in 1..9 |->
        LET i == (n - 1) \div 3
            j == (n - 1) % 3
        IN  a[3 * i + 1] * b[j + 1] + a[3 * i + 2] * b[j + 4] + a[3 * i + 3] * b[j + 7] ]

Det(m) ==
      m[1] * (m[5] * m[9] - m[6] * m[8])
    - m[2] * (m[4] * m[9] - m[6] * m[7])
    + m[3] * (m[4] * m[8] - m[5] * m[7])

\* adjugate (transposed cofactor matrix)
Adj(m) ==
    << m[5] * m[9] - m[6] * m[8], m[3] * m[8] - m[2] * m[9], m[2] * m[6] - m[3] * m[5],
       m[6] * m[7] - m[4] * m[9], m[1] * m[9] - m[3] * m[7], m[3] * m[4] - m[1] * m[6],
       m[4] * m[8] - m[5] * m[7], m[2] * m[7] - m[1] * m[8], m[1] * m[5] - m[2] * m[4] >>

\* np.linalg.inv of a unimodular integer matrix: adj(m) / det(m), and
\* 1 / det = det when det is +1 or -1
MatInv(m) == [ n \in 1..9 |-> Adj(m)[n] * Det(m) ]

-----------------------------------------------------------------------------
(* The external collaborators, as inputs of a query *)

\* transforms cell.niggli_reduce() returns in the model (all unimodular)
NiggliOps ==
    << eye3,
       <<0, 1, 0, 0, 0, 1, 1, 0, 0>>,
       <<1, 0, 0, -1, 1, 0, 0, 0, -1>> >>

\* every transform of the table
AllOps == UNION { Range(niggli_op_table[n]) : n \in DOMAIN niggli_op_table }

RECURSIVE EnumOps(_, _)
EnumOps(todo, k) ==
    IF todo = {} THEN << >>
    ELSE LET t == CHOOSE x \in todo : TRUE
         IN  <<t>> \o EnumOps(todo \ {t}, k + 1)

OpSeq == EnumOps(AllOps, 1)

OpIndex == [ t \in AllOps |-> CHOOSE k \in 1..Len(OpSeq) : OpSeq[k] = t ]

Exceptions == { "AssertionError", "UnconventionalLattice", "RuntimeError" }

\* what the recognizer does with a candidate it does not accept as a
\* non-triclinic lattice: one of the three failures, or a TRI lattice
Rejections == << "AssertionError", "UnconventionalLattice", "RuntimeError", "TRI" >>

NonTri == SelectSeq(bravais_names, LAMBDA n : n # "TRI")

\* get_lattice_from_canonical_cell(candidate, eps) for the candidate
\* inv(t.T) @ rcell.  rcell is invertible, so distinct transforms give
\* distinct candidates and the recognizer is a function of t for one query.
\* The result is the lattice's name, or the name of the exception raised.
get_lattice_from_canonical_cell(t) ==
    IF t \in acc
    THEN NonTri[((OpIndex[t] + shift) % Len(NonTri)) + 1]
    ELSE Rejections[((OpIndex[t] + shift) % Len(Rejections)) + 1]

-----------------------------------------------------------------------------
(* check_type *)

\* variant: the except clause without RuntimeError
Caught_without_RuntimeError(exc) == exc \in { "AssertionError", "UnconventionalLattice" }

\* except (AssertionError, UnconventionalLattice, RuntimeError): continue
Caught(exc) == exc \in { "AssertionError", "UnconventionalLattice", "RuntimeError" }

\* variant: no lattice is discarded
Discarded_never(latname) == FALSE

\* if lat.name in ['TRI']: continue
Discarded(latname) == latname \in { "TRI" }

\* the for loop of check_type from transform k on; res are the results so far.
\* exc is the exception that leaves check_type, "none" when it returns.
RECURSIVE check_type_loop(_, _, _)
check_type_loop(niggli_ops, k, res) ==
    IF k > Len(niggli_ops)
    THEN [ exc |-> "none", results |-> res ]
    ELSE LET t   == niggli_ops[k]
             lat == get_lattice_from_canonical_cell(t)
         IN  IF lat \in Exceptions
             THEN IF Caught(lat)
                  THEN check_type_loop(niggli_ops, k + 1, res)
                  ELSE [ exc |-> lat, results |-> res ]
             ELSE IF Discarded(lat)
                  THEN check_type_loop(niggli_ops, k + 1, res)
                  ELSE check_type_loop(niggli_ops, k + 1, Append(res, <<lat, t>>))

\* niggli_ops = niggli_op_table[name]; results = []; the loop; return results
check_type(name) == check_type_loop(table[name], 1, << >>)

\* variant: the loop written as "while niggli_ops: op = niggli_ops.pop(0)"
niggli_ops_after_loop_consumed(niggli_ops) == << >>

\* the list check_type bound to niggli_ops, as check_type leaves it: the for
\* loop reads it, and "op = np.array(op, int).reshape(3, 3)" rebinds the loop
\* variable to a new array
niggli_ops_after_loop(niggli_ops) == niggli_ops

-----------------------------------------------------------------------------
(* identify_lattice *)

\* variant: the exclusion list of find_all_niggli_ops used in the classifier
Scannable_short_list(testlat) ==
    ~(testlat \in { "MCL", "MCLC", "TRI" }) /\ ~(lattice_ndim(testlat) < 3)

\* not (testlat in ['TRI']) and not (bravais_lattices[testlat].ndim < 3)
Scannable(testlat) == ~(testlat \in { "TRI" }) /\ ~(lattice_ndim(testlat) < 3)

\* variant: the first result is taken, whatever its name
FirstMatch_first_result(res) ==
    IF res = << >> THEN <<0, 0>>
    ELSE << CHOOSE n \in 1..Len(bravais_names) : bravais_names[n] = res[1][1], 1 >>

\* for name in bravais_names: for lat, std_op in results: if lat.name == name
\* the first hit of the nested loops, as <<index of name, index in results>>;
\* <<0, 0>> when the loops end without a hit
FirstMatch(res) ==
    LET hits == { h \in (1..Len(bravais_names)) \X (1..Len(res)) :
                    res[h[2]][1] = bravais_names[h[1]] }
    IN  IF hits = {} THEN <<0, 0>>
        ELSE CHOOSE h \in hits :
                \A g \in hits : h[1] < g[1] \/ (h[1] = g[1] /\ h[2] <= g[2])

\* variant: the factors in the other order
ComposeTransform_swapped(std_op, nop) == MatMul(MatInv(nop), std_op)

\* std_op @ np.linalg.inv(op)
ComposeTransform(std_op, nop) == MatMul(std_op, MatInv(nop))

NoRet == [ lat |-> "none", std_op |-> << >>, transform |-> << >> ]

\* the subsets of S with at most k elements
RECURSIVE SubsetsUpTo(_, _)
SubsetsUpTo(S, k) ==
    IF k = 0 THEN { {} }
    ELSE LET smaller == SubsetsUpTo(S, k - 1)
         IN  smaller \cup { s \cup {x} : s \in smaller, x \in S }

AcceptSets == SubsetsUpTo(AllOps, MaxAccept)

CInit ==
    /\ pc = "idle"
    /\ acc = {}
    /\ shift = 0
    /\ op = eye3
    /\ testIdx = 0
    /\ results = << >>
    /\ ret = NoRet
    /\ scanned = << >>
    /\ table = niggli_op_table

\* cell = Cell.ascell(cell); rcell, op = cell.niggli_reduce()
\* the query (cell, eps) fixes the Niggli transform and the recognizer's answers
identify_lattice_begin ==
    /\ pc = "idle"
    /\ \E a \in AcceptSets, s \in 0..MaxShift, k \in 1..Len(NiggliOps) :
          /\ acc' = a
          /\ shift' = s
          /\ op' = NiggliOps[k]
    /\ pc' = "loop"
    /\ testIdx' = 1
    /\ results' = << >>
    /\ ret' = NoRet
    /\ scanned' = << >>
    /\ UNCHANGED table
    /\ UNCHANGED <<gvars, nvars, tvars, vvars, svars, bvars, fvars>>

\* for testlat in bravais_names: the two "continue" tests
identify_lattice_skip ==
    /\ pc = "loop"
    /\ testIdx <= Len(bravais_names)
    /\ ~Scannable(bravais_names[testIdx])
    /\ testIdx' = testIdx + 1
    /\ UNCHANGED <<pc, acc, shift, op, results, ret, scanned, table>>
    /\ UNCHANGED <<gvars, nvars, tvars, vvars, svars, bvars, fvars>>

\* one pass of the loop body: check_type, then the search through results
identify_lattice_check ==
    /\ pc = "loop"
    /\ testIdx <= Len(bravais_names)
    /\ Scannable(bravais_names[testIdx])
    /\ LET testlat == bravais_names[testIdx]
       IN  IF testlat \notin DOMAIN table
           THEN /\ pc' = "KeyError"
                /\ UNCHANGED <<testIdx, results, ret, scanned, table>>
           ELSE LET r == check_type(testlat)
                    m == FirstMatch(r.results)
                IN  /\ scanned' = Append(scanned, testlat)
                    /\ table' = [ table EXCEPT ![testlat] = niggli_ops_after_loop(table[testlat]) ]
                    /\ IF r.exc # "none"
                       THEN /\ pc' = r.exc
                            /\ UNCHANGED <<testIdx, results, ret>>
                       ELSE /\ results' = r.results
                            /\ IF m # <<0, 0>>
                               THEN /\ pc' = "returned"
                                    /\ ret' = [ lat       |-> r.results[m[2]][1],
                                                std_op    |-> r.results[m[2]][2],
                                                transform |-> ComposeTransform(r.results[m[2]][2], op) ]
                                    /\ UNCHANGED testIdx
                               ELSE /\ testIdx' = testIdx + 1
                                    /\ UNCHANGED <<pc, ret>>
    /\ UNCHANGED <<acc, shift, op>>
    /\ UNCHANGED <<gvars, nvars, tvars, vvars, svars, bvars, fvars>>

\* raise RuntimeError('Cannot recognize cell: ...')
identify_lattice_raise ==
    /\ pc = "loop"
    /\ testIdx > Len(bravais_names)
    /\ pc' = "raised"
    /\ UNCHANGED <<acc, shift, op, testIdx, results, ret, scanned, table>>
    /\ UNCHANGED <<gvars, nvars, tvars, vvars, svars, bvars, fvars>>

\* the caller goes on to its next query
next_query ==
    /\ pc \notin { "idle", "loop" }
    /\ pc' = "idle"
    /\ acc' = {}
    /\ shift' = 0
    /\ op' = eye3
    /\ testIdx' = 0
    /\ results' = << >>
    /\ ret' = NoRet
    /\ scanned' = << >>
    /\ UNCHANGED table
    /\ UNCHANGED <<gvars, nvars, tvars, vvars, svars, bvars, fvars>>

Next ==
    \/ identify_lattice_begin
    \/ identify_lattice_skip
    \/ identify_lattice_check
    \/ identify_lattice_raise
    \/ next_query

-----------------------------------------------------------------------------
(* Properties of the classifier *)

NameIndex(n) == CHOOSE i \in 1..Len(bravais_names) : bravais_names[i] = n

Finished == { "returned", "raised", "KeyError" } \cup Exceptions

\* the recognizer accepts the candidate of t as a non-triclinic lattice
Recognized(t) ==
    /\ get_lattice_from_canonical_cell(t) \notin Exceptions
    /\ get_lattice_from_canonical_cell(t) # "TRI"

\* the non-TRI three-dimensional classes, in enumeration order
Classes3D == SelectSeq(bravais_names, LAMBDA n : n # "TRI" /\ lattice_ndim(n) = 3)

\* the transforms of class n's entry that are recognized
SuccessesOf(n) ==
    IF n \in DOMAIN niggli_op_table
    THEN { t \in Range(niggli_op_table[n]) : Recognized(t) }
    ELSE {}

AllSuccesses == UNION { SuccessesOf(Classes3D[k]) : k \in 1..Len(Classes3D) }

\* the class whose entry was being scanned when identify_lattice returned
LastScanned == scanned[Len(scanned)]

\* C1 as stated: the returned lattice has the earliest class name among ALL
\* successful non-TRI recognitions over every class's entry, whichever
\* entry was being scanned when a match was found.
C1_EarliestOfAllClasses ==
    pc = "returned" =>
        \A t \in AllSuccesses :
            NameIndex(ret.lat) <= NameIndex(get_lattice_from_canonical_cell(t))

\* C1 amended: the lattice returned comes from the first scanned class whose
\* entry has any successful non-TRI recognition, and has the earliest class
\* name among the successes of that entry only.
C1_EarliestOfFirstMatchingEntry ==
    pc = "returned" =>
        /\ ret.std_op \in SuccessesOf(LastScanned)
        /\ ret.lat = get_lattice_from_canonical_cell(ret.std_op)
        /\ \A t \in SuccessesOf(LastScanned) :
              NameIndex(ret.lat) <= NameIndex(get_lattice_from_canonical_cell(t))
        /\ \A k \in 1..Len(Classes3D) :
              NameIndex(Classes3D[k]) < NameIndex(LastScanned)
                  => SuccessesOf(Classes3D[k]) = {}

\* two recognitions with different class names succeed in the scanned entry,
\* and the later-found one is the one returned
C1_Witness ==
    /\ pc = "returned"
    /\ Len(results) >= 2
    /\ results[1][1] # ret.lat
    /\ ret.std_op # results[1][2]

\* C2: identify_lattice never returns a TRI lattice; a TRI lattice from the
\* recognizer is discarded and the TRI entry of the table is never scanned.
C2_NeverTRI ==
    /\ pc = "returned" => ret.lat # "TRI"
    /\ \A k \in 1..Len(results) : results[k][1] # "TRI"
    /\ "TRI" \notin Range(scanned)

\* the recognizer produced a TRI lattice in the entry that gave the result
C2_Witness ==
    /\ pc = "returned"
    /\ \E t \in Range(niggli_op_table[LastScanned]) :
          get_lattice_from_canonical_cell(t) = "TRI"

\* C3: the query ends with the 'Cannot recognize cell' RuntimeError iff every
\* candidate of every non-TRI 3-D class fails or gives TRI; otherwise it
\* returns a (lattice, transform) pair and raises nothing.
C3_RaisesIffNothingRecognized ==
    pc \in Finished =>
        /\ (pc = "raised") <=> (AllSuccesses = {})
        /\ pc # "raised" => (pc = "returned" /\ ret.lat # "none" /\ ret.transform # << >>)

\* the error is raised after the recognizer gave TRI and failures
C3_Witness ==
    /\ pc = "raised"
    /\ \E t \in AllOps : get_lattice_from_canonical_cell(t) = "TRI"
    /\ \E t \in AllOps : get_lattice_from_canonical_cell(t) \in Exceptions

\* the first class, in scan order, that has a recognized candidate
FirstSuccessClass ==
    Classes3D[CHOOSE k \in 1..Len(Classes3D) :
                 /\ SuccessesOf(Classes3D[k]) # {}
                 /\ \A j \in 1..(k - 1) : SuccessesOf(Classes3D[j]) = {}]

\* C4: a recognizer failure (AssertionError, UnconventionalLattice,
\* RuntimeError) never leaves the classifier; the search goes on, and a later
\* accepted candidate is found and returned.
C4_FailuresSkipped ==
    /\ pc \notin Exceptions
    /\ (pc \in Finished /\ AllSuccesses # {}) =>
          /\ pc = "returned"
          /\ LastScanned = FirstSuccessClass
          /\ ret.std_op \in SuccessesOf(FirstSuccessClass)

\* position of t in entry e (0 when absent)
PosIn(e, t) == IF t \in Range(e) THEN CHOOSE k \in 1..Len(e) : e[k] = t ELSE 0

\* a lattice is returned after each of the three failures occurred in
\* entries scanned earlier and a failure occurred earlier in the same entry
C4_Witness ==
    /\ pc = "returned"
    /\ \A e \in Exceptions :
          \E k \in 1..(Len(scanned) - 1) :
             \E t \in Range(niggli_op_table[scanned[k]]) :
                get_lattice_from_canonical_cell(t) = e
    /\ \E j \in 1..(PosIn(niggli_op_table[LastScanned], ret.std_op) - 1) :
          get_lattice_from_canonical_cell(niggli_op_table[LastScanned][j]) \in Exceptions

\* C5: the returned transform is std_op @ inverse(niggli_op) for the table
\* transform std_op whose candidate gave the returned lattice (so that
\* transform @ niggli_op = std_op); identity when both are the identity.
C5_TransformComposition ==
    pc = "returned" =>
        /\ ret.std_op \in Range(niggli_op_table[LastScanned])
        /\ get_lattice_from_canonical_cell(ret.std_op) = ret.lat
        /\ MatMul(ret.transform, op) = ret.std_op
        /\ (op = eye3 /\ ret.std_op = eye3) => ret.transform = eye3

\* a result with a non-trivial Niggli transform and a non-trivial table transform
C5_Witness ==
    /\ pc = "returned"
    /\ op # eye3
    /\ Det(op) = -1
    /\ ret.std_op # eye3
    /\ ret.transform # ret.std_op

\* C6: every stored 9-tuple is an integer 3x3 matrix of determinant +1 or -1,
\* and so is every transform check_type pairs with a recognized lattice.
C6_TableUnimodular ==
    /\ \A k \in 1..Len(results) : Det(results[k][2]) \in { 1, -1 }
    /\ \A n \in DOMAIN niggli_op_table :
          \A k \in 1..Len(niggli_op_table[n]) :
              LET t == niggli_op_table[n][k]
              IN  /\ Len(t) = 9
                  /\ \A i \in 1..9 : t[i] \in Int
                  /\ Det(t) \in { 1, -1 }

\* a lattice has been returned through a stored transform other than the identity
C6_Witness ==
    /\ pc = "returned"
    /\ ret.std_op # eye3
    /\ ret.std_op \in Range(niggli_op_table[LastScanned])

\* C7: the table has an entry for each class identify_lattice scans (the 13
\* names other than TRI) and none for TRI; each entry holds between 1 and 15
\* pairwise distinct transforms, 1 for CUB, FCC, BCC, ORC and 15 for MCLC.
C7_TableShape ==
    /\ DOMAIN niggli_op_table = Range(bravais_names) \ { "TRI" }
    /\ Cardinality(DOMAIN niggli_op_table) = 13
    /\ Range(scanned) \subseteq DOMAIN niggli_op_table
    /\ pc # "KeyError"
    /\ \A n \in DOMAIN niggli_op_table :
          LET e == niggli_op_table[n]
          IN  /\ Len(e) >= 1
              /\ Len(e) <= 15
              /\ \A i, j \in 1..Len(e) : i # j => e[i] # e[j]
    /\ \A n \in { "CUB", "FCC", "BCC", "ORC" } : Len(niggli_op_table[n]) = 1
    /\ Len(niggli_op_table["MCLC"]) = 15

\* a query that scanned the entry of every class and found nothing
C7_Witness ==
    /\ pc = "raised"
    /\ Range(scanned) = DOMAIN niggli_op_table
    /\ Len(scanned) = 13

\* the outcome of a query computed from the table as the module defines it:
\* the scan of identify_lattice from the class at position k on
RECURSIVE answer_from(_)
answer_from(k) ==
    IF k > Len(bravais_names) THEN <<"raised", NoRet>>
    ELSE IF ~Scannable(bravais_names[k]) THEN answer_from(k + 1)
    ELSE LET r == check_type_loop(niggli_op_table[bravais_names[k]], 1, << >>)
             m == FirstMatch(r.results)
         IN  IF r.exc # "none" THEN <<r.exc, NoRet>>
             ELSE IF m = <<0, 0>> THEN answer_from(k + 1)
             ELSE <<"returned", [ lat       |-> r.results[m[2]][1],
                                  std_op    |-> r.results[m[2]][2],
                                  transform |-> ComposeTransform(r.results[m[2]][2], op) ]>>

\* C12: whatever queries were made before, the table the process holds is
\* the table of the module, and a finished query has the outcome that the
\* query alone (Niggli transform and recognizer answers) gives on that table.
C12_NoStateBetweenQueries ==
    /\ table = niggli_op_table
    /\ pc \in Finished => <<pc, ret>> = answer_from(1)

\* a query has returned a lattice from an entry with several transforms,
\* after the entries of earlier classes were read without a match
C12_Witness ==
    /\ pc = "returned"
    /\ Len(scanned) >= 5
    /\ Len(table[LastScanned]) >= 5
    /\ ret.std_op # eye3

-----------------------------------------------------------------------------
(* greedy_lattice_reduce *)
(* A cell is a sequence of 1 to 3 rows, a row a triple of integers.  On    *)
(* integer rows of this size every dot product, norm comparison and        *)
(* distance comparison of the code is exact in floating point; y is        *)
(* carried as exact fractions.                                             *)

Dot(u, v) == u[1] * v[1] + u[2] * v[2] + u[3] * v[3]

Norm2(v) == Dot(v, v)

VecSub(u, v) == << u[1] - v[1], u[2] - v[2], u[3] - v[3] >>

VecAdd(u, v) == << u[1] + v[1], u[2] + v[2], u[3] + v[3] >>

VecScale(c, v) == << c * v[1], c * v[2], c * v[3] >>

Det3(b) ==
      b[1][1] * (b[2][2] * b[3][3] - b[2][3] * b[3][2])
    - b[1][2] * (b[2][1] * b[3][3] - b[2][3] * b[3][1])
    + b[1][3] * (b[2][1] * b[3][2] - b[2][2] * b[3][1])

\* determinant of the Gram matrix of a two-row cell
Gram2(b) == Norm2(b[1]) * Norm2(b[2]) - Dot(b[1], b[2]) * Dot(b[1], b[2])

Independent(b) ==
    CASE Len(b) = 1 -> Norm2(b[1]) # 0
      [] Len(b) = 2 -> Gram2(b) # 0
      [] Len(b) = 3 -> Det3(b) # 0

\* np.floor and np.ceil of the fraction num / den, den > 0
Floor(num, den) == num \div den

Ceil(num, den) == -((-num) \div den)

Perms(n) == { p \in [1..n -> 1..n] : \A a, b \in 1..n : a # b => p[a] # p[b] }

\* np.argsort(squared_lengths): the default sort kind does not fix the
\* order of equal keys, so every ordering of ties is a possible result
argsort(cell) ==
    { p \in Perms(Len(cell)) :
        \A a, b \in 1..Len(cell) :
            a < b => Norm2(cell[p[a]]) <= Norm2(cell[p[b]]) }

\* cell[args]
take(cell, args) ==
    IF Len(cell) = 2
    THEN << cell[args[1]], cell[args[2]] >>
    ELSE << cell[args[1]], cell[args[2]], cell[args[3]] >>

\* cell[:-1]
front(cell) == SubSeq(cell, 1, Len(cell) - 1)

\* yvec = inv(H) @ coords with H[i, j] = <ci, cj> / <ci, ci> and
\* coords[i] = <ci, tvec> / <ci, ci>.  Multiplying row i of H y = coords by
\* <ci, ci> gives G y = g for the Gram matrix G of cell[:-1] and
\* g[i] = <ci, tvec>; Cramer's rule gives y as numerators over one positive
\* denominator.
yvec_den(cell) ==
    IF Len(cell) = 2 THEN Norm2(cell[1]) ELSE Gram2(front(cell))

yvec_num(cell) ==
    LET tvec == cell[Len(cell)]
    IN  IF Len(cell) = 2
        THEN << Dot(cell[1], tvec) >>
        ELSE << Dot(cell[1], tvec) * Norm2(cell[2]) - Dot(cell[2], tvec) * Dot(cell[1], cell[2]),
                Dot(cell[2], tvec) * Norm2(cell[1]) - Dot(cell[1], tvec) * Dot(cell[1], cell[2]) >>

\* lower = np.floor(yvec), upper = np.ceil(yvec)
lower(cell) ==
    IF Len(cell) = 2
    THEN << Floor(yvec_num(cell)[1], yvec_den(cell)) >>
    ELSE << Floor(yvec_num(cell)[1], yvec_den(cell)),
            Floor(yvec_num(cell)[2], yvec_den(cell)) >>

upper(cell) ==
    IF Len(cell) = 2
    THEN << Ceil(yvec_num(cell)[1], yvec_den(cell)) >>
    ELSE << Ceil(yvec_num(cell)[1], yvec_den(cell)),
            Ceil(yvec_num(cell)[2], yvec_den(cell)) >>

\* itertools.product(*zip(lower, upper)), in its order of enumeration
coefs_product(lo, up) ==
    IF Len(lo) = 1
    THEN << <<lo[1]>>, <<up[1]>> >>
    ELSE << <<lo[1], lo[2]>>, <<lo[1], up[2]>>, <<up[1], lo[2]>>, <<up[1], up[2]>> >>

\* variant: the slice cell[1:] in place of cell[:-1]
candidate_from_tail(coefs, cell) ==
    IF Len(cell) = 2
    THEN VecScale(coefs[1], cell[2])
    ELSE VecAdd(VecScale(coefs[1], cell[2]), VecScale(coefs[2], cell[3]))

\* candidate = np.dot(coefs, cell[:-1])
candidate(coefs, cell) ==
    IF Len(cell) = 2
    THEN VecScale(coefs[1], cell[1])
    ELSE VecAdd(VecScale(coefs[1], cell[1]), VecScale(coefs[2], cell[2]))

\* a candidate with its distance: dist = np.linalg.norm(candidate - cell[-1]),
\* compared through its square
with_dist(cand, cell) == << cand, Norm2(VecSub(cand, cell[Len(cell)])) >>

\* variant: a candidate at the same distance replaces the one held
keep_closer_last(kept, next) == IF next[2] <= kept[2] THEN next ELSE kept

\* if dist < mindist: mindist = dist; closest = candidate
\* kept is the pair held so far, next the pair of the candidate examined
keep_closer(kept, next) == IF next[2] < kept[2] THEN next ELSE kept

\* the candidates of the loop, each with its distance, in loop order
candidates(cs, cell) ==
    IF Len(cell) = 2
    THEN << with_dist(candidate(cs[1], cell), cell),
            with_dist(candidate(cs[2], cell), cell) >>
    ELSE << with_dist(candidate(cs[1], cell), cell),
            with_dist(candidate(cs[2], cell), cell),
            with_dist(candidate(cs[3], cell), cell),
            with_dist(candidate(cs[4], cell), cell) >>

\* the candidate loop: the first candidate of least distance
closest(ps) ==
    IF Len(ps) = 2
    THEN keep_closer(ps[1], ps[2])[1]
    ELSE keep_closer(keep_closer(keep_closer(ps[1], ps[2]), ps[3]), ps[4])[1]

\* cell[-1] -= closest
subtract(cell, vec) ==
    [ cell EXCEPT ![Len(cell)] = VecSub(cell[Len(cell)], vec) ]

\* variant: strict comparison
reduced_strict(cell) ==
    Norm2(cell[Len(cell)]) > Norm2(cell[Len(cell) - 1])

\* np.linalg.norm(cell[-1]) >= np.linalg.norm(cell[-2])
reduced(cell) ==
    Norm2(cell[Len(cell)]) >= Norm2(cell[Len(cell) - 1])

\* the value of i after "for i in range(ndim - 1)"
last_of_range(ndim) == ndim - 2

Coord == (-MaxNorm2)..MaxNorm2

Vecs == { v \in Coord \X Coord \X Coord : Norm2(v) > 0 /\ Norm2(v) <= MaxNorm2 }

\* The reduction uses only dot products of the rows, so it is unchanged by
\* permuting or negating coordinates; the first row of an input is taken
\* up to that symmetry.
FirstRows == { v \in Vecs : 0 <= v[1] /\ v[1] <= v[2] /\ v[2] <= v[3] }

Inputs ==
    { <<a>> : a \in FirstRows }
    \cup { c \in { <<a, b>> : a \in FirstRows, b \in Vecs } : Independent(c) }
    \cup { c \in { <<a, b, d>> : a \in FirstRows, b \in Vecs, d \in Vecs } : Independent(c) }

\* a frame: cell is the local variable, view tells whether it still is the
\* memory the frame was called with, i the local i, pos the next statement,
\* closest the local closest, empty until the first candidate loop ends
Frame(cell, view, i, pos, passes) ==
    [ cell |-> cell, view |-> view, i |-> i, pos |-> pos, passes |-> passes,
      closest |-> << >> ]

\* an in-place write of rows into the cell of frame d; a cell that is a view
\* shares its memory with cell[:-1] of the frame below, or with the caller
RECURSIVE write_rows(_, _, _, _)
write_rows(st, caller, d, rows) ==
    LET st1 == [ st EXCEPT ![d].cell = rows ]
    IN  IF ~st[d].view
        THEN [ stack |-> st1, caller |-> caller ]
        ELSE IF d = 1
             THEN [ stack |-> st1, caller |-> rows ]
             ELSE write_rows(st1, caller, d - 1,
                             rows \o << st[d - 1].cell[Len(st[d - 1].cell)] >>)

Top == stack[Len(stack)]

Bump(n) == IF n < MaxPasses THEN n + 1 ELSE n

GInit ==
    /\ gpc = "idle"
    /\ caller_cell = << >>
    /\ ginput = << >>
    /\ stack = << >>
    /\ gret = << >>
    /\ gpasses = 0

\* a call with ndim == 1: return cell, 0
greedy_lattice_reduce_rank1 ==
    /\ gpc = "idle"
    /\ \E c \in Inputs :
          /\ Len(c) = 1
          /\ caller_cell' = c
          /\ ginput' = c
          /\ gret' = <<c, 0>>
    /\ gpc' = "done"
    /\ UNCHANGED <<stack, gpasses>>
    /\ UNCHANGED <<cvars, nvars, tvars, vvars, svars, bvars, fvars>>

\* a call with ndim >= 2, up to "i = 0"
greedy_lattice_reduce_call ==
    /\ gpc = "idle"
    /\ \E c \in Inputs :
          /\ Len(c) >= 2
          /\ caller_cell' = c
          /\ ginput' = c
          /\ stack' = << Frame(c, TRUE, 0, "sort", 0) >>
    /\ gpc' = "running"
    /\ UNCHANGED <<gret, gpasses>>
    /\ UNCHANGED <<cvars, nvars, tvars, vvars, svars, bvars, fvars>>

\* variant: the rows reordered inside the array the name was bound to
take_is_view_in_place == TRUE

\* cell = cell[args]: indexing with an index array makes a new array, so the
\* name no longer refers to the memory the frame was called with
take_is_view == FALSE

\* squared_lengths = ...; args = np.argsort(squared_lengths); cell = cell[args]
glr_sort ==
    /\ gpc = "running"
    /\ Top.pos = "sort"
    /\ \E args \in argsort(Top.cell) :
          \E sorted \in { take(Top.cell, args) } :
          \E keeps \in { Top.view /\ take_is_view } :
          \E w \in { IF keeps
                      THEN write_rows(stack, caller_cell, Len(stack), sorted)
                      ELSE [ stack |-> stack, caller |-> caller_cell ] } :
             /\ stack' = [ w.stack EXCEPT ![Len(stack)] =
                              [ Frame(sorted, keeps, Top.i, "recurse", Bump(Top.passes))
                                  EXCEPT !.closest = Top.closest ] ]
             /\ caller_cell' = w.caller
    /\ gpasses' = IF Len(stack) = 1 THEN Bump(gpasses) ELSE gpasses
    /\ UNCHANGED <<gpc, ginput, gret>>
    /\ UNCHANGED <<cvars, nvars, tvars, vvars, svars, bvars, fvars>>

\* cell[:-1], _ = greedy_lattice_reduce(cell[:-1]); i += 1  when ndim is 2:
\* the call returns its argument at once
glr_recurse_rank1 ==
    /\ gpc = "running"
    /\ Top.pos = "recurse"
    /\ Len(Top.cell) = 2
    /\ \E w \in { write_rows(stack, caller_cell, Len(stack),
                               front(Top.cell) \o << Top.cell[2] >>) } :
          /\ stack' = [ w.stack EXCEPT ![Len(stack)].i = Top.i + 1,
                                       ![Len(stack)].pos = "closest" ]
          /\ caller_cell' = w.caller
    /\ UNCHANGED <<gpc, ginput, gret, gpasses>>
    /\ UNCHANGED <<cvars, nvars, tvars, vvars, svars, bvars, fvars>>

\* greedy_lattice_reduce(cell[:-1]) when ndim is 3: the callee starts on a
\* view of the first rows
glr_recurse_call ==
    /\ gpc = "running"
    /\ Top.pos = "recurse"
    /\ Len(Top.cell) = 3
    /\ stack' = Append(stack, Frame(front(Top.cell), TRUE, 0, "sort", 0))
    /\ UNCHANGED <<gpc, caller_cell, ginput, gret, gpasses>>
    /\ UNCHANGED <<cvars, nvars, tvars, vvars, svars, bvars, fvars>>

\* H, coords, yvec, the candidates; cell[-1] -= closest; the test of line 136
glr_closest ==
    /\ gpc = "running"
    /\ Top.pos = "closest"
    /\ \E cell \in { Top.cell } :
       \E lo \in { lower(cell) }, up \in { upper(cell) } :
       \E cs \in { coefs_product(lo, up) } :
       \E ps \in { candidates(cs, cell) } :
       \E vec \in { closest(ps) } :
       \E new \in { subtract(cell, vec) } :
       \E w \in { write_rows(stack, caller_cell, Len(stack), new) } :
          /\ stack' = [ w.stack EXCEPT ![Len(stack)].i = last_of_range(Len(new)),
                                       ![Len(stack)].closest = vec,
                                       ![Len(stack)].pos =
                                           IF reduced(new) THEN "return" ELSE "sort" ]
          /\ caller_cell' = w.caller
    /\ UNCHANGED <<gpc, ginput, gret, gpasses>>
    /\ UNCHANGED <<cvars, nvars, tvars, vvars, svars, bvars, fvars>>

\* return cell, i  of the inner call; the caller stores the rows in its
\* cell[:-1] and executes i += 1
glr_return_inner ==
    /\ gpc = "running"
    /\ Top.pos = "return"
    /\ Len(stack) > 1
    /\ \E d \in { Len(stack) - 1 } :
          \E w \in { write_rows(front(stack), caller_cell, d,
                                Top.cell \o << stack[d].cell[Len(stack[d].cell)] >>) } :
             /\ stack' = [ w.stack EXCEPT ![d].i = stack[d].i + 1, ![d].pos = "closest" ]
             /\ caller_cell' = w.caller
    /\ UNCHANGED <<gpc, ginput, gret, gpasses>>
    /\ UNCHANGED <<cvars, nvars, tvars, vvars, svars, bvars, fvars>>

\* return cell, i  to the caller of greedy_lattice_reduce
glr_return ==
    /\ gpc = "running"
    /\ Top.pos = "return"
    /\ Len(stack) = 1
    /\ gret' = << Top.cell, Top.i >>
    /\ stack' = << >>
    /\ gpc' = "done"
    /\ UNCHANGED <<caller_cell, ginput, gpasses>>
    /\ UNCHANGED <<cvars, nvars, tvars, vvars, svars, bvars, fvars>>

GLRNext ==
    \/ greedy_lattice_reduce_rank1
    \/ greedy_lattice_reduce_call
    \/ glr_sort
    \/ glr_recurse_rank1
    \/ glr_recurse_call
    \/ glr_closest
    \/ glr_return_inner
    \/ glr_return

-----------------------------------------------------------------------------
(* Properties of greedy_lattice_reduce *)

\* n / d is an integer (d # 0)
Divides(d, n) == IF d > 0 THEN n % d = 0 ELSE (-n) % (-d) = 0

\* n / d for d dividing n
Quot(n, d) == IF d > 0 THEN n \div d ELSE (-n) \div (-d)

\* b with row k replaced by v
WithRow(b, k, v) == [ b EXCEPT ![k] = v ]

\* v is an integer combination of the rows of the independent cell b
IntegerCombination(v, b) ==
    CASE Len(b) = 1 ->
            /\ Divides(Norm2(b[1]), Dot(b[1], v))
            /\ VecScale(Quot(Dot(b[1], v), Norm2(b[1])), b[1]) = v
      [] Len(b) = 2 ->
            LET d  == Gram2(b)
                n1 == Dot(b[1], v) * Norm2(b[2]) - Dot(b[2], v) * Dot(b[1], b[2])
                n2 == Dot(b[2], v) * Norm2(b[1]) - Dot(b[1], v) * Dot(b[1], b[2])
            IN  /\ Divides(d, n1)
                /\ Divides(d, n2)
                /\ VecAdd(VecScale(Quot(n1, d), b[1]), VecScale(Quot(n2, d), b[2])) = v
      [] Len(b) = 3 ->
            \A k \in 1..3 : Divides(Det3(b), Det3(WithRow(b, k, v)))

\* the rows of a and of b generate the same lattice
SameLattice(a, b) ==
    /\ Len(a) = Len(b)
    /\ Independent(a)
    /\ Independent(b)
    /\ \A k \in 1..Len(a) : IntegerCombination(a[k], b)
    /\ \A k \in 1..Len(b) : IntegerCombination(b[k], a)

\* the rows a frame was called with: the input, or cell[:-1] of its caller
CalledWith(d) == IF d = 1 THEN ginput ELSE front(stack[d - 1].cell)

\* C8: after every step of the reduction (sort, sub-reduction, subtraction)
\* the current basis of each call spans the lattice it was called with, and
\* so does the basis returned.
C8_SameLattice ==
    /\ \A d \in 1..Len(stack) : SameLattice(stack[d].cell, CalledWith(d))
    /\ gpc = "done" => SameLattice(gret[1], ginput)

\* a rank-3 call has returned rows none of which is a row of its input
C8_Witness ==
    /\ gpc = "done"
    /\ Len(ginput) = 3
    /\ gpasses >= 2
    /\ \A k \in 1..3 : \A j \in 1..3 : gret[1][k] # ginput[j]

\* C9 as stated: the second value returned is 0 for rank 1 and otherwise the
\* number of passes of the while loop executed up to the return.
C9_IterationCount ==
    gpc = "done" => gret[2] = (IF Len(ginput) = 1 THEN 0 ELSE gpasses)

\* C10: every call of greedy_lattice_reduce eventually returns.
C10_Terminates == <>(gpc = "done")

\* a call has returned after more than one pass, with its last two rows of
\* exactly equal norm at the termination test
C10_Witness ==
    /\ gpc = "done"
    /\ Len(ginput) = 3
    /\ gpasses >= 2
    /\ Norm2(gret[1][3]) = Norm2(gret[1][2])

\* C11: greedy_lattice_reduce never modifies the array its caller passed: from
\* the call on, and after the return, the caller's array holds the rows it
\* held at the call, in the same order.
C11_CallerArrayUnchanged ==
    gpc \in { "running", "done" } => caller_cell = ginput

\* a rank-3 call has returned, after two passes or more, a basis whose rows
\* all differ from the rows at the same position of the input
C11_Witness ==
    /\ gpc = "done"
    /\ Len(ginput) = 3
    /\ gpasses >= 2
    /\ caller_cell = ginput
    /\ \A k \in 1..3 : gret[1][k] # ginput[k]

\* the integer f with f <= num / den < f + 1, den > 0
FloorOf(num, den) ==
    LET b == (IF num < 0 THEN -num ELSE num) + 1
    IN  CHOOSE f \in (-b)..b : f * den <= num /\ num < (f + 1) * den

\* the integer c with c - 1 < num / den <= c, den > 0
CeilOf(num, den) ==
    LET b == (IF num < 0 THEN -num ELSE num) + 1
    IN  CHOOSE c \in (-b)..b : (c - 1) * den < num /\ num <= c * den

\* the tuples taking lo[k] or up[k] at each place k, the first place varying
\* slowest and lo[k] coming before up[k]
RECURSIVE ProductOrder(_, _)
ProductOrder(lo, up) ==
    IF lo = << >> THEN << << >> >>
    ELSE LET rest == ProductOrder(Tail(lo), Tail(up))
         IN  [ k \in 1..Len(rest) |-> << lo[1] >> \o rest[k] ]
             \o [ k \in 1..Len(rest) |-> << up[1] >> \o rest[k] ]

\* the sum of coefs[k] * rows[k]
RECURSIVE Combination(_, _)
Combination(coefs, rows) ==
    IF rows = << >> THEN << 0, 0, 0 >>
    ELSE VecAdd(VecScale(coefs[1], rows[1]), Combination(Tail(coefs), Tail(rows)))

\* y = num / den solves H y = coords for the rows sub and the vector t, each
\* equation multiplied by <sub[i], sub[i]> and by den
SolvesH(num, den, sub, t) ==
    \A i \in 1..Len(sub) :
        (IF Len(sub) = 1
         THEN Dot(sub[i], sub[1]) * num[1]
         ELSE Dot(sub[i], sub[1]) * num[1] + Dot(sub[i], sub[2]) * num[2])
            = Dot(sub[i], t) * den

\* the frame that has just executed cell[-1] -= closest, as the cell before
\* the subtraction, the candidates in enumeration order and their squared
\* distances to the largest-norm vector
LastPass ==
    LET new == Top.cell
        n == Len(new)
        sub == front(new)
        t == VecAdd(new[n], Top.closest)
        before == sub \o << t >>
        den == yvec_den(before)
        num == yvec_num(before)
        enum == ProductOrder([ k \in 1..(n - 1) |-> FloorOf(num[k], den) ],
                             [ k \in 1..(n - 1) |-> CeilOf(num[k], den) ])
        cands == [ k \in 1..Len(enum) |-> Combination(enum[k], sub) ]
    IN  [ n |-> n, sub |-> sub, t |-> t, den |-> den, num |-> num,
          cands |-> cands,
          dist |-> [ k \in 1..Len(cands) |-> Norm2(VecSub(cands[k], t)) ] ]

JustSubtracted ==
    /\ gpc = "running"
    /\ Top.pos \in { "sort", "return" }
    /\ Top.closest # << >>

\* C20: in every pass of the reduce loop for rank n the vector subtracted
\* from the largest-norm vector is, among the 2^(n-1) combinations of the
\* sub-basis with coefficients floor(y_i) or ceil(y_i), y solving the
\* row-normalised system H y = coords, the one of least distance to that
\* vector, and of those at least distance the first in enumeration order.
C20_ClosestCandidate ==
    JustSubtracted =>
        LET p == LastPass
        IN  /\ p.den > 0
            /\ SolvesH(p.num, p.den, p.sub, p.t)
            /\ Len(p.cands) = 2 ^ (p.n - 1)
            /\ \E k \in 1..Len(p.cands) :
                  /\ Top.closest = p.cands[k]
                  /\ \A j \in 1..Len(p.cands) : p.dist[k] <= p.dist[j]
                  /\ \A j \in 1..(k - 1) : p.dist[k] < p.dist[j]

\* a pass for rank 3 has subtracted a vector other than zero although a
\* different candidate later in the enumeration was at the same distance
C20_Witness ==
    /\ JustSubtracted
    /\ Len(Top.cell) = 3
    /\ Top.closest # << 0, 0, 0 >>
    /\ LET p == LastPass
       IN  \E k, j \in 1..Len(p.cands) :
              /\ k < j
              /\ Top.closest = p.cands[k]
              /\ p.cands[j] # p.cands[k]
              /\ p.dist[j] = p.dist[k]
              /\ \A h \in 1..Len(p.cands) : p.dist[k] <= p.dist[h]

\* the rows of a basis are in non-decreasing order of norm
NormOrdered(cell) ==
    \A k \in 1..(Len(cell) - 1) : Norm2(cell[k]) <= Norm2(cell[k + 1])

\* C21: a pass of greedy_lattice_reduce returns exactly when, after the
\* subtraction, the norm of the last vector is >= the norm of the second-last
\* vector, compared without tolerance, and otherwise another pass starts; the
\* rows of every basis of rank >= 2 that is returned, by the call or by the
\* recursive call, are in non-decreasing order of norm.
C21_ReturnTest ==
    /\ JustSubtracted =>
          LET n == Len(Top.cell)
          IN  /\ Top.pos = "return" <=> Norm2(Top.cell[n]) >= Norm2(Top.cell[n - 1])
              /\ Top.pos = "sort" <=> Norm2(Top.cell[n]) < Norm2(Top.cell[n - 1])
    /\ (gpc = "running" /\ Top.pos = "return") => NormOrdered(Top.cell)
    /\ (gpc = "done" /\ Len(gret[1]) >= 2) => NormOrdered(gret[1])

\* a call for rank 3 has returned after more than one pass, the test of the
\* last pass having met two rows of exactly the same norm
C21_Witness ==
    /\ gpc = "done"
    /\ Len(gret[1]) = 3
    /\ gpasses >= 2
    /\ Norm2(gret[1][3]) = Norm2(gret[1][2])
    /\ Norm2(gret[1][1]) < Norm2(gret[1][2])

-----------------------------------------------------------------------------
(* find_niggli_ops: the body of the loop for one sampled cell *)

\* op.T @ cell for a transform stored row-major and a cell of three rows
TransformCell(t, cell) ==
    << VecAdd(VecAdd(VecScale(t[1], cell[1]), VecScale(t[4], cell[2])), VecScale(t[7], cell[3])),
       VecAdd(VecAdd(VecScale(t[2], cell[1]), VecScale(t[5], cell[2])), VecScale(t[8], cell[3])),
       VecAdd(VecAdd(VecScale(t[3], cell[1]), VecScale(t[6], cell[2])), VecScale(t[9], cell[3])) >>

\* rcell, op = cell.niggli_reduce(): the reduced cell is op.T @ cell for the
\* unimodular transform the reducer chose
niggli_reduce(cell, t) == [ rcell |-> TransformCell(t, cell), op |-> t ]

\* rcell_test = Cell(op.T @ cell); err = abs(rcellpar_test - rcellpar).max();
\* the two cells have the same parameters when they are the same cell
cellpar_err_small(rcell_test, rcell) == rcell_test = rcell

NInit ==
    /\ npc = "idle"
    /\ nsample = << >>
    /\ narg = << >>
    /\ nret = << >>

\* glr_obj = greedy_lattice_reduce(cell) has returned; gcell = glr_obj[0];
\* cell = Cell(gcell); rcell, op = cell.niggli_reduce(); the integer tests;
\* the key; the test of the cell parameters
find_niggli_ops_body ==
    /\ gpc = "done"
    /\ npc = "idle"
    /\ Len(ginput) = 3
    /\ \E gcell \in { gret[1] } :
       \E cell \in { gcell } :
       \E k \in 1..Len(NiggliOps) :
       \E r \in { niggli_reduce(cell, NiggliOps[k]) } :
          /\ nsample' = caller_cell
          /\ narg' = cell
          /\ nret' = r
          /\ npc' = IF cellpar_err_small(TransformCell(r.op, cell), r.rcell)
                    THEN "keyed" ELSE "AssertionError"
    /\ UNCHANGED gvars
    /\ UNCHANGED <<cvars, tvars, vvars, svars, bvars, fvars>>

SampleNext ==
    \/ GLRNext
    \/ find_niggli_ops_body

\* C13 as stated: the Niggli reduction that gives the key is applied to the
\* generated parametric cell itself, so the recorded transform takes that
\* cell to the reduced cell, as if the lattice reducer had not been run.
C13_NiggliOnParametricCell ==
    npc = "keyed" =>
        /\ narg = nsample
        /\ TransformCell(nret.op, nsample) = nret.rcell

-----------------------------------------------------------------------------
(* The table generator: lattice_loop, find_niggli_ops, find_all_niggli_ops, *)
(* generate_niggli_op_table.  A dict is a sequence of <<key, value>> pairs  *)
(* in insertion order.  A float matrix whose entries are multiples of 1/2   *)
(* is stored as the 9-tuple of its entries times two.                       *)

\* bravais_lattices[name].parameters
lattice_parameters(name) ==
    CASE name \in { "CUB", "FCC", "BCC" } -> << "a" >>
      [] name \in { "TET", "BCT", "HEX" } -> << "a", "c" >>
      [] name \in { "ORC", "ORCF", "ORCI", "ORCC" } -> << "a", "b", "c" >>
      [] name = "RHL" -> << "a", "alpha" >>
      [] name \in { "MCL", "MCLC" } -> << "a", "b", "c", "alpha" >>
      [] name = "TRI" -> << "a", "b", "c", "alpha", "beta", "gamma" >>

\* the argument lattices of a call: None, or a list of class names
LatticeArgs ==
    { [ none |-> TRUE, names |-> << >> ] } \cup
    { [ none |-> FALSE, names |-> l ] :
        l \in { << "BCC" >>, << "TET", "RHL" >>, << "MCL", "ORC" >>, << "RHL", "TRI" >> } }

\* length_grid and angle_grid
GridArgs ==
    { << <<1, 2>>, <<60>> >>, << <<2>>, <<60, 90>> >>, << <<3, 1>>, <<90>> >> }

RECURSIVE Sum(_)
Sum(q) == IF q = << >> THEN 0 ELSE Head(q) + Sum(Tail(q))

\* latcls(**kwargs) raises UnconventionalLattice: which parameter values a
\* constructor rejects is fixed for one call by the rule tenv.rej
constructor_rejects(latpars) ==
    /\ tenv.rej # 0
    /\ (Sum(latpars) + tenv.rej) % 3 = 0

\* variant: the parameter c is the one held at 1 for every class
special_var_always_c(name) == "c"

\* if latcls.name in ['MCL', 'MCLC']: special_var = 'c' else: special_var = 'a'
special_var(name) == IF name \in { "MCL", "MCLC" } THEN "c" ELSE "a"

\* varname in 'abc': the substrings of 'abc'
in_abc(varname) == varname \in { "", "a", "b", "c", "ab", "bc", "abc" }

\* the branch of the if chain taken for one parameter
param_branch(name, varname) ==
    IF varname = special_var(name) THEN "ones"
    ELSE IF in_abc(varname) THEN "length_grid"
    ELSE IF varname = "alpha" THEN "angle_grid"
    ELSE "ValueError"

\* values = np.ones(1) / length_grid / angle_grid
param_values(name, varname, length_grid, angle_grid) ==
    CASE param_branch(name, varname) = "ones" -> << 1 >>
      [] param_branch(name, varname) = "length_grid" -> length_grid
      [] param_branch(name, varname) = "angle_grid" -> angle_grid

\* param_grids, one entry per parameter of the class
param_grids(name, length_grid, angle_grid) ==
    [ k \in 1..Len(lattice_parameters(name)) |->
        param_values(name, lattice_parameters(name)[k], length_grid, angle_grid) ]

\* the first loop of lattice_loop reaches "raise ValueError(varname)"
raises_ValueError(name) ==
    \E k \in 1..Len(lattice_parameters(name)) :
        param_branch(name, lattice_parameters(name)[k]) = "ValueError"

\* the tuples of rest, each with one value of vals put in front, the values
\* of vals in order
RECURSIVE prepend_each(_, _)
prepend_each(vals, rest) ==
    IF vals = << >> THEN << >>
    ELSE [ k \in 1..Len(rest) |-> << Head(vals) >> \o rest[k] ]
         \o prepend_each(Tail(vals), rest)

\* itertools.product(*param_grids): the last grid varies fastest
RECURSIVE grid_product(_)
grid_product(grids) ==
    IF grids = << >> THEN << << >> >>
    ELSE prepend_each(Head(grids), grid_product(Tail(grids)))

\* try: lat = latcls(**kwargs) / except UnconventionalLattice: pass / else: yield lat
\* the combinations from position k on that are not rejected
RECURSIVE yield_accepted(_, _)
yield_accepted(combos, k) ==
    IF k > Len(combos) THEN << >>
    ELSE IF constructor_rejects(combos[k]) THEN yield_accepted(combos, k + 1)
    ELSE << combos[k] >> \o yield_accepted(combos, k + 1)

\* lattice_loop(latcls, length_grid, angle_grid): the exception it raises, or
\* the lattices it yields (each the tuple of its parameter values), in order
lattice_loop(name, length_grid, angle_grid) ==
    IF raises_ValueError(name)
    THEN [ exc |-> "ValueError", lats |-> << >> ]
    ELSE [ exc |-> "none",
           lats |-> yield_accepted(grid_product(param_grids(name, length_grid, angle_grid)), 1) ]

\* the transforms the reducer returns in good order, chosen by tenv.pat
good_op(i, n) ==
    NiggliOps[ ((tenv.pat \div (IF (i + n) % 2 = 0 THEN 1 ELSE 3)) % 3) + 1 ]

Faulty(i, n) == tenv.fault.lat = i /\ tenv.fault.at = n

\* op of "rcell, op = cell.niggli_reduce()" for sample n of the class at
\* position i, entries times two: a unimodular integer matrix, or for a
\* faulty reducer one with an entry off by 1/2 or one of determinant 2
niggli_reduce_op(i, n) ==
    LET good == good_op(i, n)
    IN  IF Faulty(i, n) /\ tenv.fault.kind = "op"
        THEN [ e \in 1..9 |-> IF e = 2 THEN 2 * good[e] + 1 ELSE 2 * good[e] ]
        ELSE IF Faulty(i, n) /\ tenv.fault.kind = "inv"
        THEN << 4, 0, 0, 0, 2, 0, 0, 0, 2 >>
        ELSE [ e \in 1..9 |-> 2 * good[e] ]

\* whether the rcell of the reducer has the cell parameters of op.T @ cell
niggli_reduce_rcell_matches(i, n) ==
    ~(Faulty(i, n) /\ tenv.fault.kind = "cellpar")

\* np.round of h / 2: to the nearest integer, a half to the even neighbour
round_half_even(h) ==
    LET q == h \div 2
    IN  IF h % 2 = 0 THEN q
        ELSE IF q % 2 = 0 THEN q ELSE q + 1

\* int_op = op.round().astype(int)
int_op_of(op2) == [ e \in 1..9 |-> round_half_even(op2[e]) ]

\* variant: the test is not made
op_integer_err_small_unchecked(op2) == TRUE

\* op_integer_err = np.abs(op - int_op).max(); op_integer_err < 1e-12
op_integer_err_small(op2) ==
    \A e \in 1..9 : op2[e] - 2 * int_op_of(op2)[e] = 0

\* inv_op_float = np.linalg.inv(op); inv_op = inv_op_float.round().astype(int);
\* inv_op_integer_err < 1e-12, for an op with integer entries: the inverse is
\* the adjugate over the determinant
inv_op_integer_err_small(int_op) ==
    \A e \in 1..9 : Divides(Det(int_op), Adj(int_op)[e])

dict_has(d, key) == \E k \in 1..Len(d) : d[k][1] = key

dict_get(d, key) == d[CHOOSE k \in 1..Len(d) : d[k][1] = key][2]

dict_set(d, key, val) ==
    IF dict_has(d, key)
    THEN [ k \in 1..Len(d) |-> IF d[k][1] = key THEN <<key, val>> ELSE d[k] ]
    ELSE Append(d, <<key, val>>)

\* variant: "niggli_ops = {op_key: 1}" in the else branch
count_key_rebinding(counts, op_key) ==
    IF dict_has(counts, op_key)
    THEN dict_set(counts, op_key, dict_get(counts, op_key) + 1)
    ELSE << <<op_key, 1>> >>

\* if op_key in niggli_ops: niggli_ops[op_key] += 1 else: niggli_ops[op_key] = 1
count_key(counts, op_key) ==
    IF dict_has(counts, op_key)
    THEN dict_set(counts, op_key, dict_get(counts, op_key) + 1)
    ELSE dict_set(counts, op_key, 1)

\* variant: transforms seen once are left out
list_of_keys_seen_twice(ops) ==
    LET kept == SelectSeq(ops, LAMBDA e : e[2] > 1)
    IN  [ k \in 1..Len(kept) |-> kept[k][1] ]

\* list(ops): the keys of the dict
list_of_keys(ops) == [ k \in 1..Len(ops) |-> ops[k][1] ]

\* for latname, ops in all_niggli_ops_and_counts.items():
\*     niggli_op_table[latname] = list(ops)
table_of(all_ops) ==
    [ k \in 1..Len(all_ops) |-> << all_ops[k][1], list_of_keys(all_ops[k][2]) >> ]

\* lattices = [name for name in bravais_names if name not in ['MCL', 'MCLC', 'TRI']]
default_lattices == SelectSeq(bravais_names, LAMBDA n : n \notin { "MCL", "MCLC", "TRI" })

\* the patterns of transforms the reducer may answer with
Patterns == 0..8

NoFault == [ lat |-> 0, at |-> 0, kind |-> "none" ]

Faults ==
    { NoFault } \cup
    [ lat : 1..2, at : 1..MaxFaultAt, kind : { "op", "inv", "cellpar" } ]

TInit ==
    /\ tpc = "idle"
    /\ targs = << >>
    /\ tenv = [ rej |-> 0, pat |-> 0, fault |-> NoFault ]
    /\ latIdx = 0
    /\ samples = << >>
    /\ sampleIdx = 0
    /\ niggli_counts = << >>
    /\ all_niggli_ops = << >>
    /\ observed = << >>
    /\ tret = << >>

\* generate_niggli_op_table(lattices, length_grid, angle_grid) up to the
\* first class of find_all_niggli_ops
generate_niggli_op_table_call ==
    /\ tpc = "idle"
    /\ \E lattices \in LatticeArgs, g \in GridArgs :
          targs' = [ lattices |-> IF lattices.none THEN default_lattices ELSE lattices.names,
                     length_grid |-> g[1], angle_grid |-> g[2] ]
    /\ \E r \in 0..MaxReject, p \in Patterns, f \in Faults :
          tenv' = [ rej |-> r, pat |-> p, fault |-> f ]
    /\ tpc' = "lattices"
    /\ latIdx' = 1
    /\ all_niggli_ops' = << >>
    /\ UNCHANGED <<samples, sampleIdx, niggli_counts, observed, tret>>
    /\ UNCHANGED <<cvars, gvars, nvars, vvars, svars, bvars, fvars>>

\* for latname in lattices: the ndim test, then find_niggli_ops up to the
\* first lattice of lattice_loop
find_all_niggli_ops_next ==
    /\ tpc = "lattices"
    /\ latIdx <= Len(targs.lattices)
    /\ \E latname \in { targs.lattices[latIdx] } :
          IF lattice_ndim(latname) < 3
          THEN /\ latIdx' = latIdx + 1
               /\ UNCHANGED <<tpc, samples, sampleIdx, niggli_counts, observed>>
          ELSE \E ll \in { lattice_loop(latname, targs.length_grid, targs.angle_grid) } :
                  /\ niggli_counts' = << >>
                  /\ observed' = << >>
                  /\ samples' = ll.lats
                  /\ sampleIdx' = 1
                  /\ tpc' = IF ll.exc = "none" THEN "samples" ELSE ll.exc
                  /\ UNCHANGED latIdx
    /\ UNCHANGED <<targs, tenv, all_niggli_ops, tret>>
    /\ UNCHANGED <<cvars, gvars, nvars, vvars, svars, bvars, fvars>>

\* the body of "for lat in lattice_loop(...)" for one lattice: the cell, the
\* call of greedy_lattice_reduce, niggli_reduce, the three assertions, the key
find_niggli_ops_sample ==
    /\ tpc = "samples"
    /\ sampleIdx <= Len(samples)
    /\ \E op2 \in { niggli_reduce_op(latIdx, sampleIdx) } :
       \E int_op \in { int_op_of(op2) } :
          IF ~op_integer_err_small(op2)
          THEN /\ tpc' = "AssertionError"
               /\ UNCHANGED <<sampleIdx, niggli_counts, observed>>
          ELSE IF Det(int_op) = 0
          THEN /\ tpc' = "LinAlgError"
               /\ UNCHANGED <<sampleIdx, niggli_counts, observed>>
          ELSE IF ~inv_op_integer_err_small(int_op)
          THEN /\ tpc' = "AssertionError"
               /\ UNCHANGED <<sampleIdx, niggli_counts, observed>>
          ELSE /\ niggli_counts' = count_key(niggli_counts, int_op)
               /\ observed' = Append(observed, int_op)
               /\ IF niggli_reduce_rcell_matches(latIdx, sampleIdx)
                  THEN /\ sampleIdx' = sampleIdx + 1
                       /\ UNCHANGED tpc
                  ELSE /\ tpc' = "AssertionError"
                       /\ UNCHANGED sampleIdx
    /\ UNCHANGED <<targs, tenv, latIdx, samples, all_niggli_ops, tret>>
    /\ UNCHANGED <<cvars, gvars, nvars, vvars, svars, bvars, fvars>>

\* return niggli_ops; all_niggli_ops[latname] = niggli_ops
find_niggli_ops_return ==
    /\ tpc = "samples"
    /\ sampleIdx > Len(samples)
    /\ all_niggli_ops' = dict_set(all_niggli_ops, targs.lattices[latIdx], niggli_counts)
    /\ latIdx' = latIdx + 1
    /\ tpc' = "lattices"
    /\ UNCHANGED <<targs, tenv, samples, sampleIdx, niggli_counts, observed, tret>>
    /\ UNCHANGED <<cvars, gvars, nvars, vvars, svars, bvars, fvars>>

\* return all_niggli_ops; the table is built from it and returned
generate_niggli_op_table_return ==
    /\ tpc = "lattices"
    /\ latIdx > Len(targs.lattices)
    /\ tret' = table_of(all_niggli_ops)
    /\ tpc' = "returned"
    /\ UNCHANGED <<targs, tenv, latIdx, samples, sampleIdx, niggli_counts,
                   all_niggli_ops, observed>>
    /\ UNCHANGED <<cvars, gvars, nvars, vvars, svars, bvars, fvars>>

GenNext ==
    \/ generate_niggli_op_table_call
    \/ find_all_niggli_ops_next
    \/ find_niggli_ops_sample
    \/ find_niggli_ops_return
    \/ generate_niggli_op_table_return

-----------------------------------------------------------------------------
(* Properties of the table generator *)

CurrentClass == targs.lattices[latIdx]

\* the number of lattices lattice_loop yields for the class at position i
NumYielded(i) ==
    Len(lattice_loop(targs.lattices[i], targs.length_grid, targs.angle_grid).lats)

\* the reducer's answer for sample n of class i fails a check of
\* find_niggli_ops: op has a non-integer entry, or its inverse has one (an
\* integer matrix has an integer inverse only for determinant +1 or -1), or
\* the reduced cell does not have the parameters rebuilt from op
BadAnswer(i, n) ==
    LET op2 == niggli_reduce_op(i, n)
    IN  \/ \E e \in 1..9 : op2[e] % 2 # 0
        \/ Det([ e \in 1..9 |-> op2[e] \div 2 ]) \notin { 1, -1 }
        \/ ~niggli_reduce_rcell_matches(i, n)

\* C14: a sample whose Niggli answer fails one of the three checks is never
\* passed over: find_niggli_ops goes on to the next sample, returns, and a
\* table is returned, only when every sample so far passed; at the first
\* failing sample the call ends with the AssertionError and without a table.
C14_AssertionPropagates ==
    /\ tpc = "samples" => \A n \in 1..(sampleIdx - 1) : ~BadAnswer(latIdx, n)
    /\ tpc \in { "lattices", "returned" } =>
          \A i \in 1..(latIdx - 1) : \A n \in 1..NumYielded(i) : ~BadAnswer(i, n)
    /\ tpc = "AssertionError" => BadAnswer(latIdx, sampleIdx) /\ tret = << >>
    /\ tpc # "returned" => tret = << >>

\* the cell parameters of a sample did not match, after its key was counted
\* and after an earlier class was completed: the call ended without a table
C14_Witness ==
    /\ tpc = "AssertionError"
    /\ tenv.fault.kind = "cellpar"
    /\ Len(all_niggli_ops) >= 1
    /\ niggli_counts # << >>
    /\ tret = << >>

Keys(d) == { d[k][1] : k \in 1..Len(d) }

CountsOf(d) == [ k \in 1..Len(d) |-> d[k][2] ]

\* C15: the map find_niggli_ops returns for a class has as keys exactly the
\* transforms computed for its samples, each key once, with counts that sum
\* to the number of lattices lattice_loop yielded; the returned table lists
\* for each class every key of its map exactly once.
C15_KeysAndCounts ==
    /\ (tpc = "lattices" /\ latIdx > 1) =>
          LET m == dict_get(all_niggli_ops, targs.lattices[latIdx - 1])
          IN  /\ Keys(m) = Range(observed)
              /\ Cardinality(Keys(m)) = Len(m)
              /\ Sum(CountsOf(m)) = Len(samples)
              /\ Len(samples) = NumYielded(latIdx - 1)
    /\ tpc = "returned" =>
          /\ Len(tret) = Len(all_niggli_ops)
          /\ \A k \in 1..Len(tret) :
                /\ tret[k][1] = all_niggli_ops[k][1]
                /\ Range(tret[k][2]) = Keys(all_niggli_ops[k][2])
                /\ Len(tret[k][2]) = Cardinality(Keys(all_niggli_ops[k][2]))

\* a table was returned with an entry of two transforms or more, one of
\* them seen once and another seen more often
C15_Witness ==
    /\ tpc = "returned"
    /\ \E k \in 1..Len(tret) :
          /\ Len(tret[k][2]) >= 2
          /\ \E a, b \in 1..Len(all_niggli_ops[k][2]) :
                /\ all_niggli_ops[k][2][a][2] = 1
                /\ all_niggli_ops[k][2][b][2] >= 2

\* the count map find_niggli_ops builds from the keys q, starting from counts
RECURSIVE count_keys(_, _)
count_keys(counts, q) ==
    IF q = << >> THEN counts
    ELSE count_keys(count_key(counts, Head(q)), Tail(q))

permute(q, p) == [ k \in 1..Len(q) |-> q[p[k]] ]

\* the sum of two count maps, as a set of <<key, count>> pairs
merged(d1, d2) ==
    { << key, (IF dict_has(d1, key) THEN dict_get(d1, key) ELSE 0)
            + (IF dict_has(d2, key) THEN dict_get(d2, key) ELSE 0) >> :
        key \in Keys(d1) \cup Keys(d2) }

\* C16: the keys and counts held for a class are those obtained by counting
\* the same samples in any other order, and by counting any first part and
\* the rest separately and adding the two maps.
C16_OrderIndependent ==
    /\ \A p \in Perms(Len(observed)) :
          Range(count_keys(<< >>, permute(observed, p))) = Range(niggli_counts)
    /\ \A k \in 0..Len(observed) :
          merged(count_keys(<< >>, SubSeq(observed, 1, k)),
                 count_keys(<< >>, SubSeq(observed, k + 1, Len(observed))))
             = Range(niggli_counts)

\* a class is complete with three samples or more, two transforms among
\* them, the first sample's transform seen again later
C16_Witness ==
    /\ tpc = "lattices"
    /\ Len(observed) >= 3
    /\ Len(niggli_counts) >= 2
    /\ observed[1] # observed[2]
    /\ \E k \in 3..Len(observed) : observed[k] = observed[1]

\* the parameter values C17 allows for parameter k of the class name
AllowedValues(name, k) ==
    LET varname == lattice_parameters(name)[k]
    IN  IF varname = (IF name \in { "MCL", "MCLC" } THEN "c" ELSE "a") THEN { 1 }
        ELSE IF varname \in { "a", "b", "c" } THEN Range(targs.length_grid)
        ELSE Range(targs.angle_grid)

\* the grid parameter k of the class name is drawn from
GridOf(name, k) ==
    LET varname == lattice_parameters(name)[k]
    IN  IF varname = (IF name \in { "MCL", "MCLC" } THEN "c" ELSE "a") THEN << 1 >>
        ELSE IF varname \in { "a", "b", "c" } THEN targs.length_grid
        ELSE targs.angle_grid

Combinations(name) ==
    { t \in [ 1..Len(lattice_parameters(name)) ->
                { 1 } \cup Range(targs.length_grid) \cup Range(targs.angle_grid) ] :
        \A k \in 1..Len(lattice_parameters(name)) : t[k] \in AllowedValues(name, k) }

\* t comes before u in the order of the grid product
ProductBefore(name, t, u) ==
    \E k \in 1..Len(t) :
        /\ \A j \in 1..(k - 1) : t[j] = u[j]
        /\ PosIn(GridOf(name, k), t[k]) < PosIn(GridOf(name, k), u[k])

-----------------------------------------------------------------------------
(* ase/vibrations/data.py: VibrationsData and its cache of energies and     *)
(* modes.  Atoms are their masses; the Hessian is diagonal and stored as    *)
(* its diagonal, three entries per vibrating atom.  Masses are 0, 1 or 4    *)
(* and Hessian entries 0, 4 or 16, so that every square root is an integer; *)
(* energies are in units of the conversion factor of line 275.              *)

\* None is the empty tuple, which no array of the model equals
None == << >>

\* the atoms given to the constructor
AtomsArgs ==
    { <<m>> : m \in { 0, 1, 4 } } \cup { <<m1, m2>> : m1 \in { 1, 4 }, m2 \in { 0, 1, 4 } }

\* the indices given to the constructor; None stands for the default
IndicesArgs == { None, <<0>>, <<1>>, <<-1>>, <<1, 0>> }

\* the Hessians given to the constructor, for one and for two atoms
HessianArgs ==
    { <<4, 4, 4>>, <<16, 0, 4>>, <<4, 4, 4, 16, 16, 16>>, <<16, 0, 4, 4, 0, 16>> }

\* self._indices = np.array(range(len(atoms))) / np.array(indices, dtype=int)
indices_of(atoms, indices) ==
    IF indices = None THEN [ k \in 1..Len(atoms) |-> k - 1 ] ELSE indices

\* _mask_from_indices: indices wrapped modulo natoms, mask[indices] = True
mask_from_indices(atoms, indices) ==
    [ a \in 1..Len(atoms) |->
        \E k \in 1..Len(indices) : indices[k] % Len(atoms) = a - 1 ]

\* atoms[mask]: the atoms of the mask, in the order of atoms
RECURSIVE select_mask(_, _, _)
select_mask(atoms, mask, a) ==
    IF a > Len(atoms) THEN << >>
    ELSE (IF mask[a] THEN << atoms[a] >> ELSE << >>) \o select_mask(atoms, mask, a + 1)

\* the position in atoms of each atom of the mask
RECURSIVE where_mask(_, _)
where_mask(mask, a) ==
    IF a > Len(mask) THEN << >>
    ELSE (IF mask[a] THEN << a - 1 >> ELSE << >>) \o where_mask(mask, a + 1)

\* the exception of __init__, "none" when the instance is made:
\* atoms[indices] fails for an index out of range, _check_dimensions for a
\* Hessian of another shape
init_exception(atoms, hessian, indices) ==
    IF \E k \in 1..Len(indices) : indices[k] >= Len(atoms) \/ indices[k] < -Len(atoms)
    THEN "IndexError"
    ELSE IF Len(hessian) # 3 * Len(indices) THEN "ValueError"
    ELSE "none"

Sqrt(x) == CHOOSE r \in 0..x : r * r = x

\* the atom (1-based, among the vibrating atoms) of entry d of the Hessian
atom_of(d) == ((d - 1) \div 3) + 1

\* mass_weights * hessian_2d * mass_weights[:, np.newaxis] on the diagonal
weighted(hessian2d, masses) ==
    [ d \in 1..Len(hessian2d) |-> hessian2d[d] \div masses[atom_of(d)] ]

\* np.linalg.eigh of a diagonal matrix: the entries in ascending order, and
\* for each the unit vector of its row; equal entries in the order of rows
eigh_order(w) ==
    [ k \in 1..Len(w) |->
        CHOOSE d \in 1..Len(w) :
            Cardinality({ c \in 1..Len(w) : w[c] < w[d] \/ (w[c] = w[d] /\ c < d) }) = k - 1 ]

\* _calculate_energies_and_modes: the exception raised, or energies and
\* modes.  A mode is the row of its one non-zero entry and that entry,
\* masses**-0.5, times two.
calculate_energies_and_modes(atoms, indices, hessian2d) ==
    LET masses == select_mask(atoms, mask_from_indices(atoms, indices), 1)
    IN  IF \E a \in 1..Len(masses) : masses[a] = 0
        THEN [ exc |-> "ValueError", energies |-> None, modes |-> None ]
        ELSE LET w   == weighted(hessian2d, masses)
                 ord == eigh_order(w)
             IN  [ exc |-> "none",
                   energies |-> [ k \in 1..Len(w) |-> Sqrt(w[ord[k]]) ],
                   modes |-> [ k \in 1..Len(w) |->
                                 << ord[k], 2 \div Sqrt(masses[atom_of(ord[k])]) >> ] ]

\* variant: the cache is never found filled
cache_filled_never(energies, modes) == FALSE

\* not (self._energies is None or self._modes is None)
cache_filled(energies, modes) == ~(energies = None \/ modes = None)

\* return (self._energies.copy(), self._modes.copy())
returns_copies == TRUE

\* the instance fields a call of get_energies_and_modes reads and writes
CacheState == [ energies |-> self_energies, modes |-> self_modes, ncalc |-> ncalc, first |-> first ]

\* get_energies_and_modes on the cache state c: the state it leaves, the
\* exception it raises and the pair it returns
get_energies_and_modes(c) ==
    IF cache_filled(c.energies, c.modes)
    THEN [ state |-> c, exc |-> "none", value |-> << c.energies, c.modes >> ]
    ELSE LET r == calculate_energies_and_modes(self_atoms, self_indices, self_hessian2d)
         IN  IF r.exc # "none"
             THEN [ state |-> c, exc |-> r.exc, value |-> None ]
             ELSE [ state |-> [ energies |-> r.energies, modes |-> r.modes,
                                ncalc |-> IF c.ncalc < 3 THEN c.ncalc + 1 ELSE c.ncalc,
                                first |-> IF c.ncalc = 0 THEN << r.energies, r.modes >> ELSE c.first ],
                    exc |-> "none", value |-> << r.energies, r.modes >> ]

\* 1 / units.invcm, to the nearest integer
PerInvcm == 8066

\* self.get_energies() / units.invcm
frequencies_of(energies) == [ k \in 1..Len(energies) |-> energies[k] * PerInvcm ]

\* 0.5 * np.asarray(energies).real.sum(), as numerator and denominator
zero_point_energy_of(energies) == << Sum(energies), 2 >>

\* _tabulate_from_energies: for each energy its index, meV and cm^-1, then
\* the zero-point energy
tabulate_of(energies) ==
    [ k \in 1..Len(energies) |-> << k - 1, energies[k] * 1000, energies[k] * PerInvcm >> ]
    \o << zero_point_energy_of(energies) >>

\* RawDOSData(energies, np.ones_like(energies))
dos_of(energies) == [ energies |-> energies, weights |-> [ k \in 1..Len(energies) |-> 1 ] ]

\* get_pdos: for each vibrating atom the DOS weighted by the squared norm of
\* the atom's part of each unweighted mode, with the atom's index
pdos_of(energies, modes, mask) ==
    LET idx == where_mask(mask, 1)
    IN  [ a \in 1..Len(idx) |->
            [ energies |-> energies,
              weights |-> [ k \in 1..Len(modes) |-> IF atom_of(modes[k][1]) = a THEN 1 ELSE 0 ],
              info |-> idx[a] ] ]

NoCall == [ method |-> "none", exc |-> "none", value |-> None ]

NoHeld == [ energies |-> None, modes |-> None, shared |-> FALSE, modified |-> FALSE ]

\* the constructor's arguments before there is an instance
NoGiven == [ atoms |-> None, hessian |-> None, indices |-> None,
             shared |-> {}, modified |-> {} ]

\* self._atoms = atoms.copy()
init_copies_atoms == TRUE

\* np.array(indices, dtype=int) makes a new array
init_copies_indices == TRUE

\* variant: the reshaped array kept without .copy()
init_keeps_hessian == FALSE

\* np.asarray(hessian).reshape(3 * n_atoms, 3 * n_atoms).copy()
init_copies_hessian == TRUE

VInit ==
    /\ vpc = "none"
    /\ self_atoms = None
    /\ self_indices = None
    /\ self_hessian2d = None
    /\ self_energies = None
    /\ self_modes = None
    /\ ncalc = 0
    /\ first = None
    /\ vret = NoCall
    /\ held = NoHeld

\* VibrationsData(atoms, hessian, indices)
VibrationsData_init ==
    /\ vpc = "none"
    /\ \E atoms \in AtomsArgs, hessian \in HessianArgs, indices \in IndicesArgs :
       \E ind \in { indices_of(atoms, indices) } :
       \E exc \in { init_exception(atoms, hessian, ind) } :
          IF exc # "none"
          THEN /\ vpc' = exc
               /\ UNCHANGED <<self_atoms, self_indices, self_hessian2d, given, built>>
          ELSE /\ vpc' = "ready"
               /\ self_atoms' = atoms
               /\ self_indices' = ind
               /\ self_hessian2d' = hessian
               /\ given' = [ atoms |-> atoms, hessian |-> hessian, indices |-> indices,
                             shared |-> (IF init_copies_atoms THEN {} ELSE { "atoms" })
                                        \cup (IF init_copies_hessian THEN {} ELSE { "hessian" })
                                        \cup (IF init_copies_indices THEN {} ELSE { "indices" }),
                             modified |-> {} ]
               /\ built' = [ NoGiven EXCEPT !.atoms = atoms, !.hessian = hessian,
                                            !.indices = ind ]
    /\ self_energies' = None
    /\ self_modes' = None
    /\ UNCHANGED <<ncalc, first, vret, held, handed>>
    /\ UNCHANGED <<cvars, gvars, nvars, tvars, svars, bvars>>

\* a call that goes through get_energies_and_modes once: the cache state it
\* leaves, and what the method returns computed from the pair by value_of
CallOnce(method, r, val, holds) ==
    /\ self_energies' = r.state.energies
    /\ self_modes' = r.state.modes
    /\ ncalc' = r.state.ncalc
    /\ first' = r.state.first
    /\ vret' = [ method |-> method, exc |-> r.exc,
                 value |-> IF r.exc = "none" THEN val ELSE None ]
    /\ held' = IF r.exc = "none" /\ holds # NoHeld THEN holds ELSE held
    /\ UNCHANGED <<vpc, self_atoms, self_indices, self_hessian2d>>
    /\ UNCHANGED <<cvars, gvars, nvars, tvars, svars, bvars, fvars>>

VibrationsData_get_energies_and_modes ==
    /\ vpc = "ready"
    /\ \E r \in { get_energies_and_modes(CacheState) } :
          CallOnce("get_energies_and_modes", r, r.value,
                   IF r.exc = "none"
                   THEN [ energies |-> r.value[1], modes |-> r.value[2],
                          shared |-> ~returns_copies, modified |-> FALSE ]
                   ELSE NoHeld)

\* return self.get_energies_and_modes()[1]
VibrationsData_get_modes ==
    /\ vpc = "ready"
    /\ \E r \in { get_energies_and_modes(CacheState) } :
          CallOnce("get_modes", r, IF r.exc = "none" THEN r.value[2] ELSE None,
                   IF r.exc = "none"
                   THEN [ energies |-> None, modes |-> r.value[2],
                          shared |-> ~returns_copies, modified |-> FALSE ]
                   ELSE NoHeld)

\* return self.get_energies_and_modes()[0]
VibrationsData_get_energies ==
    /\ vpc = "ready"
    /\ \E r \in { get_energies_and_modes(CacheState) } :
          CallOnce("get_energies", r, IF r.exc = "none" THEN r.value[1] ELSE None,
                   IF r.exc = "none"
                   THEN [ energies |-> r.value[1], modes |-> None,
                          shared |-> ~returns_copies, modified |-> FALSE ]
                   ELSE NoHeld)

VibrationsData_get_frequencies ==
    /\ vpc = "ready"
    /\ \E r \in { get_energies_and_modes(CacheState) } :
          CallOnce("get_frequencies", r,
                   IF r.exc = "none" THEN frequencies_of(r.value[1]) ELSE None, NoHeld)

VibrationsData_get_zero_point_energy ==
    /\ vpc = "ready"
    /\ \E r \in { get_energies_and_modes(CacheState) } :
          CallOnce("get_zero_point_energy", r,
                   IF r.exc = "none" THEN zero_point_energy_of(r.value[1]) ELSE None, NoHeld)

VibrationsData_tabulate ==
    /\ vpc = "ready"
    /\ \E r \in { get_energies_and_modes(CacheState) } :
          CallOnce("tabulate", r,
                   IF r.exc = "none" THEN tabulate_of(r.value[1]) ELSE None, NoHeld)

VibrationsData_get_dos ==
    /\ vpc = "ready"
    /\ \E r \in { get_energies_and_modes(CacheState) } :
          CallOnce("get_dos", r,
                   IF r.exc = "none" THEN dos_of(r.value[1]) ELSE None, NoHeld)

\* energies = self.get_energies(); ...; vectors = self.get_modes() / ...
VibrationsData_get_pdos ==
    /\ vpc = "ready"
    /\ \E r1 \in { get_energies_and_modes(CacheState) } :
          IF r1.exc # "none"
          THEN CallOnce("get_pdos", r1, None, NoHeld)
          ELSE \E r2 \in { get_energies_and_modes(r1.state) } :
                  CallOnce("get_pdos", r2,
                           pdos_of(r1.value[1], r2.value[2],
                                   mask_from_indices(self_atoms, self_indices)),
                           NoHeld)

\* the caller writes into an array it was handed: the first energy, or else
\* the entry of the first mode
caller_modifies ==
    /\ vpc = "ready"
    /\ held # NoHeld
    /\ ~held.modified
    /\ \E e \in { IF held.energies = None THEN None
                  ELSE [ held.energies EXCEPT ![1] = 99 ] } :
       \E m \in { IF held.energies # None \/ held.modes = None THEN held.modes
                  ELSE [ held.modes EXCEPT ![1] = << held.modes[1][1], 99 >> ] } :
          /\ held' = [ held EXCEPT !.energies = e, !.modes = m, !.modified = TRUE ]
          /\ self_energies' = IF held.shared /\ e # None THEN e ELSE self_energies
          /\ self_modes' = IF held.shared /\ m # None THEN m ELSE self_modes
    /\ UNCHANGED <<vpc, self_atoms, self_indices, self_hessian2d, ncalc, first, vret>>
    /\ UNCHANGED <<cvars, gvars, nvars, tvars, svars, bvars, fvars>>

VibNext ==
    \/ VibrationsData_init
    \/ VibrationsData_get_energies_and_modes
    \/ VibrationsData_get_modes
    \/ VibrationsData_get_energies
    \/ VibrationsData_get_frequencies
    \/ VibrationsData_get_zero_point_energy
    \/ VibrationsData_tabulate
    \/ VibrationsData_get_dos
    \/ VibrationsData_get_pdos
    \/ caller_modifies

\* what a method returns when energies and modes are those of the pair p
ValueFrom(method, p) ==
    CASE method = "get_energies_and_modes" -> p
      [] method = "get_modes" -> p[2]
      [] method = "get_energies" -> p[1]
      [] method = "get_frequencies" -> [ k \in 1..Len(p[1]) |-> p[1][k] * PerInvcm ]
      [] method = "get_zero_point_energy" -> << Sum(p[1]), 2 >>
      [] method = "tabulate" -> tabulate_of(p[1])
      [] method = "get_dos" -> dos_of(p[1])
      [] method = "get_pdos" ->
            pdos_of(p[1], p[2], mask_from_indices(self_atoms, self_indices))

\* C18: on one instance the diagonalisation completes at most once, and
\* every call that returns gives the value that follows from the result of
\* that one diagonalisation.
C18_DiagonalisedOnce ==
    /\ ncalc <= 1
    /\ (vret.method # "none" /\ vret.exc = "none") =>
          /\ ncalc = 1
          /\ vret.value = ValueFrom(vret.method, first)

\* after the caller wrote into the arrays it was handed, get_pdos returned
\* from the cache filled by an earlier call
C18_Witness ==
    /\ vret.method = "get_pdos"
    /\ vret.exc = "none"
    /\ held.modified
    /\ held.energies # None
    /\ held.energies # first[1]
    /\ ncalc = 1
    /\ Len(self_atoms) = 2

-----------------------------------------------------------------------------
(* ase/build/split.py: connected_indices.  Atoms are numbered from 0; the   *)
(* neighbour list is given by the set of neighbour pairs it finds, a pair   *)
(* of one atom standing for an atom that neighbours its own periodic image. *)

\* the largest number of atoms of a structure
MaxAtoms == 3

AtomPairs(n) == { { a, b } : a \in 0..(n - 1), b \in 0..(n - 1) }

\* variant: the index is used as given
normalised_not(n, idx) == idx

\* if index < 0: index = len(atoms) + index
normalised(n, idx) == IF idx < 0 THEN n + idx ELSE idx

\* the atoms among 0..k that neighbour atom i, in ascending order
RECURSIVE neighbours_upto(_, _, _)
neighbours_upto(prs, i, k) ==
    IF k < 0 THEN << >>
    ELSE neighbours_upto(prs, i, k - 1) \o (IF { i, k } \in prs THEN << k >> ELSE << >>)

\* nl.get_neighbors(i)[0]; an index below 0 counts from the end
get_neighbors(n, prs, i) == neighbours_upto(prs, i % n, n - 1)

\* for j in nl.get_neighbors(i)[0]: if j in connected: pass
\* else: connected.append(j); isolated = False
\* the list and the flag after the neighbours js
RECURSIVE append_new(_, _, _)
append_new(conn, iso, js) ==
    IF js = << >> THEN << conn, iso >>
    ELSE IF \E k \in 1..Len(conn) : conn[k] = Head(js)
         THEN append_new(conn, iso, Tail(js))
         ELSE append_new(Append(conn, Head(js)), FALSE, Tail(js))

SInit ==
    /\ spc = "idle"
    /\ natoms = 0
    /\ bonds = {}
    /\ index_arg = 0
    /\ index = 0
    /\ connected = << >>
    /\ isolated = FALSE
    /\ cpos = 0

\* connected_indices(atoms, index) up to "isolated = False"
connected_indices_enter(n, prs, idx) ==
    \E norm \in { normalised(n, idx) } :
       /\ natoms' = n
       /\ bonds' = prs
       /\ index_arg' = idx
       /\ index' = norm
       /\ connected' = << norm >> \o get_neighbors(n, prs, norm)
       /\ isolated' = FALSE
       /\ cpos' = 0
       /\ spc' = "while"

\* a call of connected_indices(atoms, index)
connected_indices_call ==
    /\ spc = "idle"
    /\ \E n \in 1..MaxAtoms :
       \E prs \in SUBSET AtomPairs(n), idx \in (-n)..(n - 1) :
          connected_indices_enter(n, prs, idx)
    /\ UNCHANGED <<cvars, gvars, nvars, tvars, vvars, bvars, fvars>>

\* while not isolated: isolated = True, and the for loop starts;
\* otherwise return connected
connected_indices_while ==
    /\ spc = "while"
    /\ IF ~isolated
       THEN /\ isolated' = TRUE
            /\ cpos' = 1
            /\ spc' = "for"
       ELSE /\ spc' = "done"
            /\ UNCHANGED <<isolated, cpos>>
    /\ UNCHANGED <<natoms, bonds, index_arg, index, connected>>
    /\ UNCHANGED <<cvars, gvars, nvars, tvars, vvars, bvars, fvars>>

\* for i in connected: one element of the list, which grows while it is
\* iterated over; the loop ends after its last element
connected_indices_for ==
    /\ spc = "for"
    /\ IF cpos <= Len(connected)
       THEN \E r \in { append_new(connected, isolated,
                                  get_neighbors(natoms, bonds, connected[cpos])) } :
               /\ connected' = r[1]
               /\ isolated' = r[2]
               /\ cpos' = cpos + 1
               /\ UNCHANGED spc
       ELSE /\ spc' = "while"
            /\ UNCHANGED <<connected, isolated, cpos>>
    /\ UNCHANGED <<natoms, bonds, index_arg, index>>
    /\ UNCHANGED <<cvars, gvars, nvars, tvars, vvars, bvars, fvars>>

SplitNext ==
    \/ connected_indices_call
    \/ connected_indices_while
    \/ connected_indices_for

\* the atoms that are in S or neighbour an atom of S
Grown(S) == S \cup { b \in 0..(natoms - 1) : \E a \in S : { a, b } \in bonds }

\* the atoms reachable from those of S through chains of neighbour pairs
RECURSIVE Reachable(_)
Reachable(S) == IF Grown(S) = S THEN S ELSE Reachable(Grown(S))

\* C19: connected_indices returns; the list returned starts with the index,
\* a negative one counted from len(atoms), and its elements are exactly the
\* atoms reachable from that atom through chains of neighbour pairs; no
\* other atom is ever in the list.
C19_ConnectedIndices ==
    /\ <>(spc = "done")
    /\ [](spc \in { "while", "for", "done" } =>
             LET start == IF index_arg < 0 THEN natoms + index_arg ELSE index_arg
             IN  /\ connected[1] = start
                 /\ Range(connected) \subseteq Reachable({ start })
                 /\ spc = "done" => Range(connected) = Reachable({ start }))

\* a call with a negative index has returned three atoms, the last of them
\* reached only through the second
C19_Witness ==
    /\ spc = "done"
    /\ natoms = 3
    /\ index_arg < 0
    /\ Len(connected) = 3
    /\ { index, connected[3] } \notin bonds

-----------------------------------------------------------------------------
(* ase/build/split.py: split_bond.  A fragment is given as the list of the  *)
(* atoms of the input structure it is made of.  Whether two atoms are       *)
(* neighbours depends on the two atoms only, so the neighbour pairs of a    *)
(* copy with one atom deleted are those of the input between the atoms      *)
(* that remain.                                                             *)

\* the atom of a structure of n atoms that the index idx denotes
atom_at(n, idx) == idx % n

\* if index2 > index1: shift = 0, 1  else: shift = 1, 0
shift_of(i1, i2) == IF i2 > i1 THEN << 0, 1 >> ELSE << 1, 0 >>

\* the place in the copy of the atom a after "del atoms_copy[d]"
place_after_del(d, a) == IF a < d THEN a ELSE a - 1

\* the atom of the input at place k of the copy after "del atoms_copy[d]"
atom_after_del(d, k) == IF k < d THEN k ELSE k + 1

\* the neighbour pairs of the copy after "del atoms_copy[d]"
pairs_after_del(prs, d) ==
    { { place_after_del(d, a) : a \in pr } : pr \in { q \in prs : d \notin q } }

\* atoms_copy[connected]: the atoms of the input taken by the list of places
take_atoms(n, d, conn) ==
    [ k \in 1..Len(conn) |-> atom_after_del(d, atom_at(n, conn[k])) ]

BInit ==
    /\ bpc = "idle"
    /\ split_atoms = [ n |-> 0, pairs |-> {} ]
    /\ index1 = 0
    /\ index2 = 0
    /\ atoms1 = << >>
    /\ atoms2 = << >>

\* split_bond(atoms, index1, index2) with index1 == index2: the assertion
split_bond_assert ==
    /\ bpc = "idle"
    /\ spc = "idle"
    /\ \E n \in 2..MaxAtoms :
       \E prs \in SUBSET AtomPairs(n), i1 \in (-n)..(n - 1) :
          /\ split_atoms' = [ n |-> n, pairs |-> prs ]
          /\ index1' = i1
          /\ index2' = i1
    /\ bpc' = "AssertionError"
    /\ UNCHANGED <<atoms1, atoms2>>
    /\ UNCHANGED <<cvars, gvars, nvars, tvars, vvars, svars, fvars>>

\* split_bond(atoms, index1, index2) up to the first call of connected_atoms,
\* which is in connected_indices at "isolated = False"
split_bond_call ==
    /\ bpc = "idle"
    /\ spc = "idle"
    /\ \E n \in 2..MaxAtoms :
       \E prs \in SUBSET AtomPairs(n), i1 \in (-n)..(n - 1), i2 \in (-n)..(n - 1) :
          /\ i1 # i2
          /\ split_atoms' = [ n |-> n, pairs |-> prs ]
          /\ index1' = i1
          /\ index2' = i2
          /\ connected_indices_enter(n - 1, pairs_after_del(prs, atom_at(n, i2)),
                                     i1 - shift_of(i1, i2)[1])
    /\ bpc' = "first"
    /\ UNCHANGED <<atoms1, atoms2>>
    /\ UNCHANGED <<cvars, gvars, nvars, tvars, vvars, fvars>>

\* atoms1 = atoms_copy[connected]; the second copy and deletion, up to
\* "isolated = False" of the second call of connected_indices
split_bond_second ==
    /\ bpc = "first"
    /\ spc = "done"
    /\ \E n \in { split_atoms.n } :
          /\ atoms1' = take_atoms(n - 1, atom_at(n, index2), connected)
          /\ connected_indices_enter(n - 1,
                                     pairs_after_del(split_atoms.pairs, atom_at(n, index1)),
                                     index2 - shift_of(index1, index2)[2])
    /\ bpc' = "second"
    /\ UNCHANGED <<split_atoms, index1, index2, atoms2>>
    /\ UNCHANGED <<cvars, gvars, nvars, tvars, vvars, fvars>>

\* atoms2 = atoms_copy[connected]; return atoms1, atoms2
split_bond_return ==
    /\ bpc = "second"
    /\ spc = "done"
    /\ atoms2' = take_atoms(split_atoms.n - 1, atom_at(split_atoms.n, index1), connected)
    /\ bpc' = "done"
    /\ UNCHANGED <<split_atoms, index1, index2, atoms1>>
    /\ UNCHANGED <<cvars, gvars, nvars, tvars, vvars, svars, fvars>>

BondNext ==
    \/ split_bond_assert
    \/ split_bond_call
    \/ connected_indices_while
    \/ connected_indices_for
    \/ split_bond_second
    \/ split_bond_return

\* the atoms in S or neighbouring an atom of S by a pair of prs
GrownIn(prs, S) == S \cup { b \in UNION prs : \E a \in S : { a, b } \in prs }

RECURSIVE ReachableIn(_, _)
ReachableIn(prs, S) == IF GrownIn(prs, S) = S THEN S ELSE ReachableIn(prs, GrownIn(prs, S))

\* the fragment containing atom a in the structure with atom d deleted
Fragment(a, d) ==
    ReachableIn({ q \in split_atoms.pairs : d \notin q }, { a })

\* C22: for two in-range indices that denote different atoms, negative ones
\* included, split_bond returns atoms1, the connected fragment containing the
\* atom index1 in the structure without the atom index2, and atoms2, the
\* fragment containing the atom index2 in the structure without the atom
\* index1.
C22_SplitBond ==
    LET a1 == atom_at(split_atoms.n, index1)
        a2 == atom_at(split_atoms.n, index2)
    IN  (bpc = "done" /\ a1 # a2) =>
            /\ Range(atoms1) = Fragment(a1, a2)
            /\ Range(atoms2) = Fragment(a2, a1)

-----------------------------------------------------------------------------
(* ase/vibrations/data.py: what the instance is given and what it hands     *)
(* out.  Each array or Atoms object the caller holds is kept with a flag    *)
(* telling whether it is the very object a field of the instance refers     *)
(* to; a write by the caller into such an object is a write into the field. *)

\* return self._atoms.copy()
get_atoms_copies == TRUE

\* return np.array(self._indices, dtype=int)
get_indices_copies == TRUE

\* return self._hessian2d.reshape(n_atoms, 3, n_atoms, 3).copy()
get_hessian_copies == TRUE

\* return self._hessian2d.copy()
get_hessian_2d_copies == TRUE

\* reshape(n_atoms, 3, n_atoms, 3) of the stored diagonal: for each atom the
\* three entries of its block
reshape_4d(hessian2d) ==
    [ a \in 1..(Len(hessian2d) \div 3) |->
        << hessian2d[3 * a - 2], hessian2d[3 * a - 1], hessian2d[3 * a] >> ]

\* reshape(3 * n_atoms, 3 * n_atoms) of the blocks
RECURSIVE reshape_2d(_)
reshape_2d(hessian) ==
    IF hessian = << >> THEN << >> ELSE Head(hessian) \o reshape_2d(Tail(hessian))

\* what a caller's write does to an object of each kind
written(kind, value) ==
    CASE kind = "atoms" -> [ value EXCEPT ![1] = 9 ]
      [] kind = "indices" -> [ value EXCEPT ![1] = IF value[1] = 0 THEN -1 ELSE 0 ]
      [] kind = "mask" -> [ value EXCEPT ![1] = ~value[1] ]
      [] kind = "hessian" -> [ value EXCEPT ![1] = << 99, value[1][2], value[1][3] >> ]
      [] kind = "hessian_2d" -> [ value EXCEPT ![1] = 99 ]

NoHanded == [ kind |-> "none", value |-> None, shared |-> FALSE, modified |-> FALSE ]

FInit ==
    /\ given = NoGiven
    /\ built = NoGiven
    /\ handed = NoHanded

\* a getter that hands out an object: the call recorded with what the
\* caller had modified before it
HandOut(method, kind, value, shared) ==
    /\ vret' = [ method |-> method, exc |-> "none", value |-> value,
                 after |-> [ given |-> given.modified, handed |-> handed.modified ] ]
    /\ handed' = [ kind |-> kind, value |-> value, shared |-> shared, modified |-> FALSE ]
    /\ UNCHANGED <<vpc, self_atoms, self_indices, self_hessian2d, self_energies,
                   self_modes, ncalc, first, held, given, built>>
    /\ UNCHANGED <<cvars, gvars, nvars, tvars, svars, bvars>>

VibrationsData_get_atoms ==
    /\ vpc = "ready"
    /\ HandOut("get_atoms", "atoms", self_atoms, ~get_atoms_copies)

VibrationsData_get_indices ==
    /\ vpc = "ready"
    /\ HandOut("get_indices", "indices", self_indices, ~get_indices_copies)

\* self._mask_from_indices(self._atoms, self.get_indices()): a new array
VibrationsData_get_mask ==
    /\ vpc = "ready"
    /\ HandOut("get_mask", "mask", mask_from_indices(self_atoms, self_indices), FALSE)

VibrationsData_get_hessian ==
    /\ vpc = "ready"
    /\ HandOut("get_hessian", "hessian", reshape_4d(self_hessian2d), ~get_hessian_copies)

VibrationsData_get_hessian_2d ==
    /\ vpc = "ready"
    /\ HandOut("get_hessian_2d", "hessian_2d", self_hessian2d, ~get_hessian_2d_copies)

\* the caller writes into the object a getter handed out
caller_modifies_handed ==
    /\ vpc = "ready"
    /\ handed.kind # "none"
    /\ ~handed.modified
    /\ \E v \in { written(handed.kind, handed.value) } :
          /\ handed' = [ handed EXCEPT !.value = v, !.modified = TRUE ]
          /\ self_atoms' = IF handed.shared /\ handed.kind = "atoms" THEN v ELSE self_atoms
          /\ self_indices' = IF handed.shared /\ handed.kind = "indices" THEN v ELSE self_indices
          /\ self_hessian2d' =
                IF handed.shared /\ handed.kind = "hessian" THEN reshape_2d(v)
                ELSE IF handed.shared /\ handed.kind = "hessian_2d" THEN v
                ELSE self_hessian2d
    /\ UNCHANGED <<vpc, self_energies, self_modes, ncalc, first, vret, held, given, built>>
    /\ UNCHANGED <<cvars, gvars, nvars, tvars, svars, bvars>>

\* the caller writes into the atoms, the Hessian or the indices it passed
\* to the constructor
caller_modifies_given ==
    /\ vpc = "ready"
    /\ \E arg \in { "atoms", "hessian", "indices" } \ given.modified :
          /\ arg = "indices" => given.indices # None
          /\ \E v \in { CASE arg = "atoms" -> written("atoms", given.atoms)
                          [] arg = "hessian" -> written("hessian_2d", given.hessian)
                          [] arg = "indices" -> written("indices", given.indices) } :
                /\ given' = [ given EXCEPT ![arg] = v, !.modified = @ \cup { arg } ]
                /\ self_atoms' = IF arg = "atoms" /\ arg \in given.shared THEN v ELSE self_atoms
                /\ self_hessian2d' =
                      IF arg = "hessian" /\ arg \in given.shared THEN v ELSE self_hessian2d
                /\ self_indices' =
                      IF arg = "indices" /\ arg \in given.shared THEN v ELSE self_indices
    /\ UNCHANGED <<vpc, self_energies, self_modes, ncalc, first, vret, held, handed, built>>
    /\ UNCHANGED <<cvars, gvars, nvars, tvars, svars, bvars>>

\* with_new_masses(masses): new_atoms = self.get_atoms();
\* new_atoms.set_masses(masses); the new instance made from new_atoms,
\* self.get_hessian() and self.get_indices()
VibrationsData_with_new_masses ==
    /\ vpc = "ready"
    /\ \E m \in { 1, 4 } :
       \E masses \in { [ a \in 1..Len(self_atoms) |-> m ] } :
          /\ self_atoms' = IF get_atoms_copies THEN self_atoms ELSE masses
          /\ vret' = [ method |-> "with_new_masses", exc |-> "none",
                       value |-> [ atoms |-> masses,
                                   hessian2d |-> reshape_2d(reshape_4d(self_hessian2d)),
                                   indices |-> self_indices,
                                   masses |-> masses ],
                       after |-> [ given |-> given.modified, handed |-> handed.modified ] ]
    /\ UNCHANGED <<vpc, self_indices, self_hessian2d, self_energies, self_modes,
                   ncalc, first, held, given, handed, built>>
    /\ UNCHANGED <<cvars, gvars, nvars, tvars, svars, bvars>>

FrameNext ==
    \/ VibrationsData_init
    \/ VibrationsData_get_atoms
    \/ VibrationsData_get_indices
    \/ VibrationsData_get_mask
    \/ VibrationsData_get_hessian
    \/ VibrationsData_get_hessian_2d
    \/ VibrationsData_get_energies_and_modes
    \/ VibrationsData_with_new_masses
    \/ caller_modifies
    \/ caller_modifies_handed
    \/ caller_modifies_given

\* what a getter returns on an instance made from the atoms, indices and
\* Hessian b
Expected(method, b) ==
    CASE method = "get_atoms" -> b.atoms
      [] method = "get_indices" -> b.indices
      [] method = "get_mask" ->
            [ a \in 1..Len(b.atoms) |->
                \E k \in 1..Len(b.indices) : (b.indices[k] - (a - 1)) % Len(b.atoms) = 0 ]
      [] method = "get_hessian" -> reshape_4d(b.hessian)
      [] method = "get_hessian_2d" -> b.hessian
      [] method = "get_energies_and_modes" ->
            LET r == calculate_energies_and_modes(b.atoms, b.indices, b.hessian)
            IN  << r.energies, r.modes >>

Getters ==
    { "get_atoms", "get_indices", "get_mask", "get_hessian", "get_hessian_2d",
      "get_energies_and_modes" }

\* C23: whatever the caller has written into the objects the getters handed
\* out or into the atoms, Hessian and indices it gave to the constructor, the
\* fields of the instance are those it was made with and every getter
\* returns what it returns on a fresh instance; with_new_masses returns an
\* instance with the new masses and the same Hessian and indices and leaves
\* the masses and the Hessian of the original as they were.
C23_InstanceUnchanged ==
    vpc = "ready" =>
        /\ self_atoms = built.atoms
        /\ self_indices = built.indices
        /\ self_hessian2d = built.hessian
        /\ (vret.method \in Getters /\ vret.exc = "none") =>
              vret.value = Expected(vret.method, built)
        /\ vret.method = "with_new_masses" =>
              /\ vret.value.atoms = vret.value.masses
              /\ vret.value.hessian2d = built.hessian
              /\ vret.value.indices = built.indices

\* with_new_masses was called, with masses other than those of the
\* instance, after the caller had written into the atoms, the Hessian and
\* the indices given to the constructor and into an array handed out by a
\* getter, and into the energies handed out
C23_Witness ==
    /\ vpc = "ready"
    /\ vret.method = "with_new_masses"
    /\ vret.after.given = { "atoms", "hessian", "indices" }
    /\ vret.after.handed
    /\ handed.kind = "hessian_2d"
    /\ held.modified
    /\ vret.value.atoms # self_atoms
    /\ given.hessian # self_hessian2d
    /\ given.atoms # self_atoms
    /\ given.indices # self_indices
    /\ Len(self_atoms) = 2

-----------------------------------------------------------------------------
(* Specifications *)

Init == CInit /\ GInit /\ NInit /\ TInit /\ VInit /\ SInit /\ BInit /\ FInit

\* the classifier answering queries
Spec == Init /\ [][Next]_vars

\* one call of greedy_lattice_reduce
SpecGLR == Init /\ [][GLRNext]_vars

\* one sample of find_niggli_ops: the call of greedy_lattice_reduce and the
\* statements that follow it
SpecSample == Init /\ [][SampleNext]_vars

\* one call of generate_niggli_op_table
SpecGen == Init /\ [][GenNext]_vars

\* calls on one VibrationsData instance
SpecVib == Init /\ [][VibNext]_vars

\* the interpreter keeps executing a call that has a next statement
FairSpecGLR == SpecGLR /\ WF_vars(GLRNext)

\* calls on one VibrationsData instance and writes of its caller into the
\* objects given to it and handed out by it
SpecFrame == Init /\ [][FrameNext]_vars

\* calls of split_bond
SpecBond == Init /\ [][BondNext]_vars

\* one call of connected_indices, which the interpreter keeps executing
FairSpecSplit == Init /\ [][SplitNext]_vars /\ WF_vars(SplitNext)

====
